---- MODULE Spec2Model ----
(***************************************************************************)
(* Braille chord-to-text input engine (hana-sama/braille_always).          *)
(*                                                                         *)
(* The module models the mode state machine (engine/state-machine.ts),     *)
(* the indicator matcher (engine/indicator-matcher.ts), the multi-cell     *)
(* matcher (engine/multi-cell-matcher), the pipeline driver                *)
(* (extension.ts) and the chord detector (input/chord-detector).           *)
(*                                                                         *)
(* Strings of the program that are compared character-wise (dot keys,      *)
(* multi-cell keys, print text) are sequences of one-character strings:    *)
(* the key "16|13" is <<"1","6","|","1","3">>.                             *)
(***************************************************************************)
EXTENDS Integers, Sequences, FiniteSets, TLC

VARIABLES
    stateMachine,      \* extension.ts `stateMachine`: the StateMachine object
    smOp,              \* observation: the last state-machine call and its argument
    smPre,             \* observation: the StateMachine object before that call
    symEnter,          \* observation: the symbol-scope enter whose return is awaited
    wordEnter,         \* observation: the word-scope enter whose return is awaited
    roundTrip,         \* observation: the machine before an enter made by the previous call
    indicatorMatcher,  \* extension.ts `indicatorMatcher`: the IndicatorMatcher object
    multiCellMatcher,  \* extension.ts `multiCellMatcher`: the MultiCellMatcher object
    dotMapper,         \* extension.ts `dotMapper`: the tables given to DotMapper.setData
    isNumericMode,     \* extension.ts `isNumericMode`
    kanaBracketOpen,   \* extension.ts `kanaBracketOpen`
    chord,             \* observation: the chord the last handleChord call was given
    log,               \* observation: what the last handleChord call did, in order
    drvPre,            \* observation: the driver's state before that call
    numericArmed,      \* observation: a numeric indicator was applied since the last space
    capDue,            \* observation: a capital indicator applied and not yet used
    inNumber,          \* observation: the last cell emitted was emitted as a digit
    isActive,          \* extension.ts `isActive`
    chordDetector,     \* extension.ts `chordDetector`: the ChordDetector object
    cdObs,             \* observation: the last chord-detector call and the object before it
    matchOp,           \* observation: the last matcher call, the matcher before it, its result
    allProfiles,       \* buildUnifiedData's argument: the raw profiles, in iteration order
    unifiedData,       \* extension.ts `unifiedData`: buildUnifiedData's result
    hasEditor,         \* the host: vscode.window.activeTextEditor is set
    brailleTracker,    \* extension.ts `brailleTracker`: the BrailleTracker object
    lineData,          \* the Map of a BrailleTracker: line number to the dot keys recorded
    trackerObs,        \* observation: the last tracker call and the Map before it
    inFlight,          \* the handleChord calls suspended at an awaited edit, oldest first
    asyncObs           \* observation: how the handleChord calls overlapped

drvVars == <<indicatorMatcher, multiCellMatcher, dotMapper, isNumericMode, kanaBracketOpen,
             chord, log, drvPre, numericArmed, capDue, inNumber, isActive,
             chordDetector, cdObs, matchOp, allProfiles, lineData, trackerObs,
             unifiedData, hasEditor,
             brailleTracker, inFlight, asyncObs>>

\* The variables only the unifier and the event loop write.
extVars == <<allProfiles, lineData, trackerObs, unifiedData, inFlight, asyncObs>>

vars == <<stateMachine, smOp, smPre, symEnter, wordEnter, roundTrip, indicatorMatcher,
          multiCellMatcher, dotMapper, isNumericMode, kanaBracketOpen, chord, log, drvPre,
          numericArmed, capDue, inNumber, isActive, chordDetector, cdObs, matchOp,
          allProfiles, lineData, trackerObs, unifiedData, hasEditor, brailleTracker,
          inFlight, asyncObs>>

NULL == "null"

\* ---------------------------------------------------------------- bounds
MaxStack == 2

\* ---------------------------------------------------------------- data/types
Modes == {"grade1", "grade2", "kana", "nemeth"}

Scopes == {"symbol", "word", "passage"}

ModifierKinds == {"capital", "numeric", "typeform"}

\* The target modes the unifier gives an indicator.
IndicatorTargetModes == {"grade1", "kana", "nemeth"}

\* An IndicatorDef as the tests build it (makeIndicator): no cells, given
\* action, target mode, scope, type and modifier.
makeIndicator(targetMode, action, scope, indicatorType, modifier) ==
    [id |-> "test", dots |-> <<>>, dotsKey |-> <<>>, action |-> action,
     targetMode |-> targetMode, scope |-> scope,
     indicatorType |-> indicatorType, modifier |-> modifier]

\* ---------------------------------------------------------------- StateMachine
\* The object's fields, plus three observation fields: `ret`, the boolean
\* returned by the last processIndicator call, `consumed`, the value returned by
\* the last consumeModifier call, and `cbLog`, the calls made to the registered
\* ModeChangeCallback during the last operation.
NewStateMachine(initialMode) ==
    [currentMode |-> initialMode, modeStack |-> <<>>, activeScope |-> NULL,
     symbolCount |-> 0, pendingModifier |-> NULL, onModeChange |-> FALSE,
     ret |-> FALSE, consumed |-> NULL, cbLog |-> <<>>]

getMode(sm) == sm.currentMode

getScope(sm) == sm.activeScope

setModeChangeCallback(sm) == [sm EXCEPT !.onModeChange = TRUE]

\* The indicator returnToBase hands to the callback.
AutoReturnIndicator(mode) ==
    [id |-> "auto_return", dots |-> <<>>, dotsKey |-> <<>>, action |-> "exit",
     targetMode |-> mode, scope |-> "symbol", indicatorType |-> "mode_switch",
     modifier |-> NULL]

\* returnToBase that pops the mode but leaves the scope active.
returnToBase_KeepsScope(sm) ==
    LET oldMode == sm.currentMode
        newMode == IF Len(sm.modeStack) > 0
                   THEN sm.modeStack[Len(sm.modeStack)] ELSE "grade1"
        popped  == IF Len(sm.modeStack) > 0
                   THEN SubSeq(sm.modeStack, 1, Len(sm.modeStack) - 1) ELSE <<>>
    IN [sm EXCEPT !.currentMode = newMode,
                  !.modeStack = popped,
                  !.symbolCount = 0,
                  !.cbLog = IF sm.onModeChange /\ oldMode # newMode
                            THEN Append(@, [oldMode |-> oldMode, newMode |-> newMode,
                                            indicator |-> AutoReturnIndicator(newMode)])
                            ELSE @]

returnToBase(sm) ==
    LET oldMode == sm.currentMode
        newMode == IF Len(sm.modeStack) > 0
                   THEN sm.modeStack[Len(sm.modeStack)] ELSE "grade1"
        popped  == IF Len(sm.modeStack) > 0
                   THEN SubSeq(sm.modeStack, 1, Len(sm.modeStack) - 1) ELSE <<>>
    IN [sm EXCEPT !.currentMode = newMode,
                  !.modeStack = popped,
                  !.activeScope = NULL,
                  !.symbolCount = 0,
                  !.cbLog = IF sm.onModeChange /\ oldMode # newMode
                            THEN Append(@, [oldMode |-> oldMode, newMode |-> newMode,
                                            indicator |-> AutoReturnIndicator(newMode)])
                            ELSE @]

\* enterMode that takes "same mode" alone for "already there" (scope not compared).
enterMode_ModeOnly(sm, indicator) ==
    LET oldMode == sm.currentMode
        newMode == indicator.targetMode
    IN IF oldMode = newMode
       THEN [sm EXCEPT !.ret = FALSE]
       ELSE [sm EXCEPT !.modeStack = Append(@, oldMode),
                       !.currentMode = newMode,
                       !.activeScope = indicator.scope,
                       !.symbolCount = 0,
                       !.cbLog = IF sm.onModeChange
                                 THEN Append(@, [oldMode |-> oldMode, newMode |-> newMode,
                                                 indicator |-> indicator])
                                 ELSE @,
                       !.ret = TRUE]

enterMode(sm, indicator) ==
    LET oldMode == sm.currentMode
        newMode == indicator.targetMode
    IN IF oldMode = newMode /\ sm.activeScope = indicator.scope
       THEN [sm EXCEPT !.ret = FALSE]
       ELSE [sm EXCEPT !.modeStack = Append(@, oldMode),
                       !.currentMode = newMode,
                       !.activeScope = indicator.scope,
                       !.symbolCount = 0,
                       !.cbLog = IF sm.onModeChange
                                 THEN Append(@, [oldMode |-> oldMode, newMode |-> newMode,
                                                 indicator |-> indicator])
                                 ELSE @,
                       !.ret = TRUE]

\* exitMode that takes grade1 alone for "at base" (stack not looked at).
exitMode_ModeOnly(sm, indicator) ==
    IF sm.currentMode = "grade1"
    THEN [sm EXCEPT !.ret = FALSE]
    ELSE LET oldMode == sm.currentMode
             after   == returnToBase(sm)
         IN [after EXCEPT !.ret = (oldMode # after.currentMode)]

exitMode(sm, indicator) ==
    IF sm.currentMode = "grade1" /\ Len(sm.modeStack) = 0
    THEN [sm EXCEPT !.ret = FALSE]
    ELSE LET oldMode == sm.currentMode
             after   == returnToBase(sm)
         IN [after EXCEPT !.ret = (oldMode # after.currentMode)]

\* processIndicator whose modifier branch ignores the action: an exit indicator
\* sets its modifier like an enter indicator does.
processIndicator_ExitSets(sm, indicator) ==
    IF indicator.indicatorType = "modifier"
    THEN [sm EXCEPT !.pendingModifier = indicator.modifier, !.ret = TRUE]
    ELSE IF indicator.action = "enter"
         THEN enterMode(sm, indicator)
         ELSE exitMode(sm, indicator)

processIndicator(sm, indicator) ==
    IF indicator.indicatorType = "modifier"
    THEN [sm EXCEPT !.pendingModifier =
                        IF indicator.action = "enter" /\ indicator.modifier # NULL
                        THEN indicator.modifier ELSE NULL,
                    !.ret = TRUE]
    ELSE IF indicator.action = "enter"
         THEN enterMode(sm, indicator)
         ELSE exitMode(sm, indicator)

consumeModifier(sm) ==
    [sm EXCEPT !.pendingModifier = NULL, !.consumed = sm.pendingModifier]

hasPendingModifier(sm) == sm.pendingModifier # NULL

\* onCharacterEmitted with the threshold off by one (returns after two characters).
onCharacterEmitted_Late(sm) ==
    IF sm.activeScope = "symbol"
    THEN LET counted == [sm EXCEPT !.symbolCount = @ + 1]
         IN IF counted.symbolCount >= 2 THEN returnToBase(counted) ELSE counted
    ELSE sm

onCharacterEmitted(sm) ==
    IF sm.activeScope = "symbol"
    THEN LET counted == [sm EXCEPT !.symbolCount = @ + 1]
         IN IF counted.symbolCount >= 1 THEN returnToBase(counted) ELSE counted
    ELSE sm

onSpace(sm) == IF sm.activeScope = "word" THEN returnToBase(sm) ELSE sm

\* reset that leaves the pending modifier in place.
reset_KeepsModifier(sm) ==
    [sm EXCEPT !.currentMode = "grade1", !.modeStack = <<>>, !.activeScope = NULL,
               !.symbolCount = 0]

reset(sm) ==
    [sm EXCEPT !.currentMode = "grade1", !.modeStack = <<>>, !.activeScope = NULL,
               !.symbolCount = 0, !.pendingModifier = NULL]

\* The five fields of the machine, without the callback and the observations.
SMCore(sm) ==
    [currentMode |-> sm.currentMode, modeStack |-> sm.modeStack,
     activeScope |-> sm.activeScope, symbolCount |-> sm.symbolCount,
     pendingModifier |-> sm.pendingModifier]

\* ---------------------------------------------------------------- ChordDetector
\* The chord aggregator. Its fields are the pending dot set, the one-shot timer
\* (0 when disarmed, otherwise the duration it was armed with) and the
\* quiescence duration, plus one observation field: `emitted`, the dot sets
\* handed to the chord callback, in the order of the calls.
DefaultChordTimeout == 50

ChordTimeouts == {30, DefaultChordTimeout}

NewChordDetector(timeout) ==
    [pendingDots |-> {}, timer |-> 0, timeout |-> timeout, emitted |-> <<>>]

\* The chord callback invoked with a dot set.
ChordDetector_emit(cd, dots) == [cd EXCEPT !.emitted = Append(@, dots)]

\* flush that commits the pending chord and leaves the timer armed.
ChordDetector_flush_KeepsTimer(cd) ==
    IF cd.pendingDots # {}
    THEN [ChordDetector_emit(cd, cd.pendingDots) EXCEPT !.pendingDots = {}]
    ELSE cd

ChordDetector_flush(cd) ==
    LET committed == IF cd.pendingDots # {}
                     THEN [ChordDetector_emit(cd, cd.pendingDots) EXCEPT !.pendingDots = {}]
                     ELSE cd
    IN [committed EXCEPT !.timer = 0]

\* press whose space branch delivers the pending dots and the space in one set.
ChordDetector_press_SpaceJoins(cd, dot) ==
    IF dot = 0
    THEN [ChordDetector_emit(cd, cd.pendingDots \cup {0}) EXCEPT !.pendingDots = {},
                                                               !.timer = 0]
    ELSE [cd EXCEPT !.pendingDots = @ \cup {dot}, !.timer = cd.timeout]

ChordDetector_press(cd, dot) ==
    IF dot = 0
    THEN ChordDetector_emit(ChordDetector_flush(cd), {0})
    ELSE [cd EXCEPT !.pendingDots = @ \cup {dot}, !.timer = cd.timeout]

\* Timer expiry that delivers the pending set without clearing it.
ChordDetector_onTimeout_KeepsPending(cd) ==
    [ChordDetector_emit(cd, cd.pendingDots) EXCEPT !.timer = 0]

\* Expiry of the one-shot timer.
ChordDetector_onTimeout(cd) ==
    [ChordDetector_emit(cd, cd.pendingDots) EXCEPT !.pendingDots = {}, !.timer = 0]

ChordDetector_cancel(cd) == [cd EXCEPT !.pendingDots = {}, !.timer = 0]

ChordDetector_setTimeout(cd, timeout) == [cd EXCEPT !.timeout = timeout]

\* ---------------------------------------------------------------- strings
\* One-character strings of the six dots; a cell's dot key is a sequence of them.
DotChar == <<"1", "2", "3", "4", "5", "6">>

\* The cell key with the given dots, e.g. K(<<1, 2, 6>>) is the key "126".
K(ds) == [i \in 1..Len(ds) |-> DotChar[ds[i]]]

\* Array.prototype.join("|") on a list of cell keys.
RECURSIVE Join(_)
Join(cells) ==
    IF Len(cells) = 0 THEN <<>>
    ELSE IF Len(cells) = 1 THEN cells[1]
    ELSE cells[1] \o <<"|">> \o Join(Tail(cells))

\* String.prototype.startsWith.
StartsWith(s, prefix) ==
    /\ Len(prefix) <= Len(s)
    /\ SubSeq(s, 1, Len(prefix)) = prefix

\* Array.prototype.find on dotsKey: the index of the first element of `list`
\* among the indices `visible` whose dotsKey is `key`, 0 when there is none.
FindByKey(list, visible, key) ==
    LET hits == {i \in visible : list[i].dotsKey = key}
    IN IF hits = {} THEN 0 ELSE CHOOSE i \in hits : \A j \in hits : i <= j

\* maxCells taken from the first element alone.
MaxCells_FirstOnly(list) == IF Len(list) = 0 THEN 1 ELSE Len(list[1].dots)

\* Math.max(1, ...list.map(x => x.dots.length)).
MaxCells(list) ==
    LET lens == {Len(list[i].dots) : i \in 1..Len(list)} \cup {1}
    IN CHOOSE n \in lens : \A m \in lens : m <= n

NoIndicator ==
    [id |-> NULL, dots |-> <<>>, dotsKey |-> <<>>, action |-> NULL, targetMode |-> NULL,
     scope |-> NULL, indicatorType |-> NULL, modifier |-> NULL]

NoEntry == [id |-> NULL, dots |-> <<>>, dotsKey |-> <<>>, print |-> <<>>, mode |-> NULL]

\* ---------------------------------------------------------------- IndicatorMatcher
NewIndicatorMatcher ==
    [indicators |-> <<>>, pendingCells |-> <<>>, deferredMatch |-> NoIndicator,
     maxCells |-> 1]

setIndicators(im, indicators) ==
    [im EXCEPT !.indicators = indicators, !.maxCells = MaxCells(indicators)]

IndicatorMatchResult(type, indicator, leftoverCells, bufferedCells) ==
    [type |-> type, indicator |-> indicator, leftoverCells |-> leftoverCells,
     bufferedCells |-> bufferedCells]

\* tryMatch without deferral: an exact match is committed at once even though a
\* longer indicator starts with the buffer.
IndicatorMatcher_tryMatch_Eager(im, dotsKey) ==
    LET pendingCells == Append(im.pendingCells, dotsKey)
        pendingKey == Join(pendingCells)
        all == 1..Len(im.indicators)
        exact == FindByKey(im.indicators, all, pendingKey)
        hasLongerPrefix ==
            \E i \in all : StartsWith(im.indicators[i].dotsKey, pendingKey \o <<"|">>)
    IN IF exact # 0
       THEN [im |-> [im EXCEPT !.pendingCells = <<>>, !.deferredMatch = NoIndicator],
             result |-> IndicatorMatchResult("matched", im.indicators[exact], <<>>, <<>>)]
       ELSE IF hasLongerPrefix /\ Len(pendingCells) < im.maxCells
       THEN [im |-> [im EXCEPT !.pendingCells = pendingCells],
             result |-> IndicatorMatchResult("pending", NoIndicator, <<>>, <<>>)]
       ELSE [im |-> [im EXCEPT !.pendingCells = <<>>],
             result |-> IndicatorMatchResult("none", NoIndicator, <<>>, pendingCells)]

\* tryMatch that commits a deferred match with the whole rest of the buffer as
\* leftover instead of the last cell only.
IndicatorMatcher_tryMatch_AllLeftover(im, dotsKey) ==
    LET pendingCells == Append(im.pendingCells, dotsKey)
        pendingKey == Join(pendingCells)
        all == 1..Len(im.indicators)
        exact == FindByKey(im.indicators, all, pendingKey)
        hasLongerPrefix ==
            \E i \in all : StartsWith(im.indicators[i].dotsKey, pendingKey \o <<"|">>)
    IN IF exact # 0 /\ ~hasLongerPrefix
       THEN [im |-> [im EXCEPT !.pendingCells = <<>>, !.deferredMatch = NoIndicator],
             result |-> IndicatorMatchResult("matched", im.indicators[exact], <<>>, <<>>)]
       ELSE IF exact # 0 /\ hasLongerPrefix
       THEN [im |-> [im EXCEPT !.pendingCells = pendingCells,
                               !.deferredMatch = im.indicators[exact]],
             result |-> IndicatorMatchResult("pending", NoIndicator, <<>>, <<>>)]
       ELSE IF exact = 0 /\ hasLongerPrefix /\ Len(pendingCells) < im.maxCells
       THEN [im |-> [im EXCEPT !.pendingCells = pendingCells],
             result |-> IndicatorMatchResult("pending", NoIndicator, <<>>, <<>>)]
       ELSE IF im.deferredMatch # NoIndicator
       THEN [im |-> [im EXCEPT !.pendingCells = <<>>, !.deferredMatch = NoIndicator],
             result |-> IndicatorMatchResult(
                            "matched_with_leftover", im.deferredMatch,
                            SubSeq(pendingCells, Len(im.deferredMatch.dots) + 1,
                                   Len(pendingCells)),
                            <<>>)]
       ELSE [im |-> [im EXCEPT !.pendingCells = <<>>],
             result |-> IndicatorMatchResult("none", NoIndicator, <<>>, pendingCells)]

\* tryMatch: the matcher after the call (`im`) and the value returned (`result`).
IndicatorMatcher_tryMatch(im, dotsKey) ==
    LET pendingCells == Append(im.pendingCells, dotsKey)
        pendingKey == Join(pendingCells)
        all == 1..Len(im.indicators)
        exact == FindByKey(im.indicators, all, pendingKey)
        hasLongerPrefix ==
            \E i \in all : StartsWith(im.indicators[i].dotsKey, pendingKey \o <<"|">>)
    IN IF exact # 0 /\ ~hasLongerPrefix
       THEN [im |-> [im EXCEPT !.pendingCells = <<>>, !.deferredMatch = NoIndicator],
             result |-> IndicatorMatchResult("matched", im.indicators[exact], <<>>, <<>>)]
       ELSE IF exact # 0 /\ hasLongerPrefix
       THEN [im |-> [im EXCEPT !.pendingCells = pendingCells,
                               !.deferredMatch = im.indicators[exact]],
             result |-> IndicatorMatchResult("pending", NoIndicator, <<>>, <<>>)]
       ELSE IF exact = 0 /\ hasLongerPrefix /\ Len(pendingCells) < im.maxCells
       THEN [im |-> [im EXCEPT !.pendingCells = pendingCells],
             result |-> IndicatorMatchResult("pending", NoIndicator, <<>>, <<>>)]
       ELSE IF im.deferredMatch # NoIndicator
       THEN [im |-> [im EXCEPT !.pendingCells = <<>>, !.deferredMatch = NoIndicator],
             result |-> IndicatorMatchResult("matched_with_leftover", im.deferredMatch,
                                             <<pendingCells[Len(pendingCells)]>>, <<>>)]
       ELSE [im |-> [im EXCEPT !.pendingCells = <<>>],
             result |-> IndicatorMatchResult("none", NoIndicator, <<>>, pendingCells)]

IndicatorMatcher_hasPending(im) == Len(im.pendingCells) > 0

\* flushPending without line 103: the deferred match outlives the buffer.
IndicatorMatcher_flushPending_KeepsDeferred(im) == [im EXCEPT !.pendingCells = <<>>]

\* flushPending: the matcher after the call; the cells returned are im.pendingCells.
IndicatorMatcher_flushPending(im) ==
    [im EXCEPT !.pendingCells = <<>>, !.deferredMatch = NoIndicator]

IndicatorMatcher_reset(im) ==
    [im EXCEPT !.pendingCells = <<>>, !.deferredMatch = NoIndicator]

\* ---------------------------------------------------------------- MultiCellMatcher
NewMultiCellMatcher == [entries |-> <<>>, pendingCells |-> <<>>, maxCells |-> 1]

setEntries(mc, entries) ==
    [mc EXCEPT !.entries = entries, !.maxCells = MaxCells(entries)]

MultiCellMatchResult(type, entry, leftoverCells, bufferedCells) ==
    [type |-> type, entry |-> entry, leftoverCells |-> leftoverCells,
     bufferedCells |-> bufferedCells]

\* modeEntries without the filter: every entry, whatever its mode.
ModeEntries_All(mc, mode) == 1..Len(mc.entries)

\* The indices of the entries tryMatch keeps for `mode` (modeEntries).
ModeEntries(mc, mode) ==
    {i \in 1..Len(mc.entries) : mc.entries[i].mode = mode \/ mc.entries[i].mode = "grade1"}

\* tryMatch that commits an exact match at once although a longer entry starts
\* with the buffer.
MultiCellMatcher_tryMatch_ExactWins(mc, dotsKey, mode) ==
    LET pendingCells == Append(mc.pendingCells, dotsKey)
        pendingKey == Join(pendingCells)
        modeEntries == ModeEntries(mc, mode)
        exact == FindByKey(mc.entries, modeEntries, pendingKey)
        hasLongerPrefix ==
            \E i \in modeEntries :
                StartsWith(mc.entries[i].dotsKey, pendingKey \o <<"|">>)
        cleared == [mc EXCEPT !.pendingCells = <<>>]
    IN IF exact # 0
       THEN [mc |-> cleared,
             result |-> MultiCellMatchResult("matched", mc.entries[exact], <<>>, <<>>)]
       ELSE IF hasLongerPrefix /\ Len(pendingCells) < mc.maxCells
       THEN [mc |-> [mc EXCEPT !.pendingCells = pendingCells],
             result |-> MultiCellMatchResult("pending", NoEntry, <<>>, <<>>)]
       ELSE [mc |-> cleared,
             result |-> MultiCellMatchResult("none", NoEntry, <<>>, pendingCells)]

\* tryMatch whose recovery looks for the longest proper prefix of the buffer
\* that is an entry, and returns every cell after it as leftover.
MultiCellMatcher_tryMatch_LongestPrefix(mc, dotsKey, mode) ==
    LET pendingCells == Append(mc.pendingCells, dotsKey)
        pendingKey == Join(pendingCells)
        modeEntries == ModeEntries(mc, mode)
        exact == FindByKey(mc.entries, modeEntries, pendingKey)
        hasLongerPrefix ==
            \E i \in modeEntries :
                StartsWith(mc.entries[i].dotsKey, pendingKey \o <<"|">>)
        prefixes == {n \in 1..(Len(pendingCells) - 1) :
                        FindByKey(mc.entries, modeEntries,
                                  Join(SubSeq(pendingCells, 1, n))) # 0}
        longest == CHOOSE n \in prefixes : \A m \in prefixes : m <= n
        cleared == [mc EXCEPT !.pendingCells = <<>>]
    IN IF exact # 0 /\ ~hasLongerPrefix
       THEN [mc |-> cleared,
             result |-> MultiCellMatchResult("matched", mc.entries[exact], <<>>, <<>>)]
       ELSE IF hasLongerPrefix /\ Len(pendingCells) < mc.maxCells
       THEN [mc |-> [mc EXCEPT !.pendingCells = pendingCells],
             result |-> MultiCellMatchResult("pending", NoEntry, <<>>, <<>>)]
       ELSE IF exact # 0
       THEN [mc |-> cleared,
             result |-> MultiCellMatchResult("matched", mc.entries[exact], <<>>, <<>>)]
       ELSE IF prefixes # {}
       THEN [mc |-> cleared,
             result |-> MultiCellMatchResult(
                            "matched_with_leftover",
                            mc.entries[FindByKey(mc.entries, modeEntries,
                                                 Join(SubSeq(pendingCells, 1, longest)))],
                            SubSeq(pendingCells, longest + 1, Len(pendingCells)), <<>>)]
       ELSE [mc |-> cleared,
             result |-> MultiCellMatchResult("none", NoEntry, <<>>, pendingCells)]

MultiCellMatcher_tryMatch(mc, dotsKey, mode) ==
    LET pendingCells == Append(mc.pendingCells, dotsKey)
        pendingKey == Join(pendingCells)
        modeEntries == ModeEntries(mc, mode)
        exact == FindByKey(mc.entries, modeEntries, pendingKey)
        hasLongerPrefix ==
            \E i \in modeEntries :
                StartsWith(mc.entries[i].dotsKey, pendingKey \o <<"|">>)
        prevKey == Join(SubSeq(pendingCells, 1, Len(pendingCells) - 1))
        prevMatch == IF Len(pendingCells) > 1
                     THEN FindByKey(mc.entries, modeEntries, prevKey) ELSE 0
        cleared == [mc EXCEPT !.pendingCells = <<>>]
    IN IF exact # 0 /\ ~hasLongerPrefix
       THEN [mc |-> cleared,
             result |-> MultiCellMatchResult("matched", mc.entries[exact], <<>>, <<>>)]
       ELSE IF exact # 0 /\ hasLongerPrefix
       THEN IF Len(pendingCells) < mc.maxCells
            THEN [mc |-> [mc EXCEPT !.pendingCells = pendingCells],
                  result |-> MultiCellMatchResult("pending", NoEntry, <<>>, <<>>)]
            ELSE [mc |-> cleared,
                  result |-> MultiCellMatchResult("matched", mc.entries[exact], <<>>, <<>>)]
       ELSE IF exact = 0 /\ hasLongerPrefix /\ Len(pendingCells) < mc.maxCells
       THEN [mc |-> [mc EXCEPT !.pendingCells = pendingCells],
             result |-> MultiCellMatchResult("pending", NoEntry, <<>>, <<>>)]
       ELSE IF prevMatch # 0
       THEN [mc |-> cleared,
             result |-> MultiCellMatchResult("matched_with_leftover", mc.entries[prevMatch],
                                             <<pendingCells[Len(pendingCells)]>>, <<>>)]
       ELSE [mc |-> cleared,
             result |-> MultiCellMatchResult("none", NoEntry, <<>>, pendingCells)]

MultiCellMatcher_hasPending(mc) == Len(mc.pendingCells) > 0

\* flushPending: the matcher after the call; the cells returned are mc.pendingCells.
MultiCellMatcher_flushPending(mc) == [mc EXCEPT !.pendingCells = <<>>]

MultiCellMatcher_reset(mc) == [mc EXCEPT !.pendingCells = <<>>]

\* ---------------------------------------------------------------- DotMapper
\* engine/dot-mapper.ts is not among the source files. dotsToKey, lookup and
\* dotsKeyToUnicodeBraille follow the cases of test/input/key-config.test.ts;
\* lookupNumeric, which has no test, follows the specification's description:
\* the cell key looked up in the numeric table.
\* Array.prototype.sort on a set of dot numbers: ascending.
RECURSIVE SortAscending(_)
SortAscending(S) ==
    IF S = {} THEN <<>>
    ELSE LET least == CHOOSE d \in S : \A e \in S : d <= e
         IN <<least>> \o SortAscending(S \ {least})

\* dotsToKey: dot 0 filtered out, the rest sorted ascending and concatenated.
dotsToKey(dots) == K(SortAscending(dots \ {0}))

\* The dot number a character of a dot key stands for.
DotOf(c) == CHOOSE d \in 1..6 : DotChar[d] = c

RECURSIVE Pow2(_)
Pow2(n) == IF n = 0 THEN 1 ELSE 2 * Pow2(n - 1)

BrailleBase == 10240

\* dotsKeyToUnicodeBraille: code point U+2800 + sum of 2^(d-1) over the key's dots.
RECURSIVE dotsKeyToUnicodeBraille(_)
dotsKeyToUnicodeBraille(dotsKey) ==
    IF Len(dotsKey) = 0 THEN BrailleBase
    ELSE Pow2(DotOf(dotsKey[1]) - 1) + dotsKeyToUnicodeBraille(Tail(dotsKey))

NoMapping == [print |-> <<>>, role |-> NULL]

\* lookup without the grade1 step: the entry's mapping for the mode, else null.
lookup_OwnModeOnly(singleCellMap, dotsKey, mode) ==
    LET own == {r \in singleCellMap : r.dots = dotsKey /\ r.mode = mode}
    IN IF own # {} THEN LET r == CHOOSE r \in own : TRUE
                        IN [print |-> r.print, role |-> r.role]
       ELSE NoMapping

\* lookup: the entry's mapping for the mode, else its grade1 mapping, else null.
\* `singleCellMap` is a set of [dots, mode, print, role] rows, one per key and mode.
lookup(singleCellMap, dotsKey, mode) ==
    LET own  == {r \in singleCellMap : r.dots = dotsKey /\ r.mode = mode}
        base == {r \in singleCellMap : r.dots = dotsKey /\ r.mode = "grade1"}
    IN IF own # {} THEN LET r == CHOOSE r \in own : TRUE
                        IN [print |-> r.print, role |-> r.role]
       ELSE IF base # {} THEN LET r == CHOOSE r \in base : TRUE
                              IN [print |-> r.print, role |-> r.role]
       ELSE NoMapping

\* lookupNumeric: the numeric table's mapping for the key, else null.
lookupNumeric(numericMap, dotsKey) ==
    LET hit == {r \in numericMap : r.dots = dotsKey}
    IN IF hit # {} THEN LET r == CHOOSE r \in hit : TRUE
                        IN [print |-> r.print, role |-> "numbers"]
       ELSE NoMapping

\* String.prototype.toUpperCase, one character at a time.
UpperChar(c) ==
    CASE c = "a" -> "A" [] c = "b" -> "B" [] c = "k" -> "K" [] c = "n" -> "N"
      [] c = "o" -> "O" [] c = "w" -> "W" [] OTHER -> c

toUpperCase(text) == [i \in 1..Len(text) |-> UpperChar(text[i])]

\* ---------------------------------------------------------------- profile data
\* The unified tables the driver is loaded with (buildUnifiedData's result for a
\* UEB profile and a kana profile): capital and numeric modifiers, a capital
\* word indicator that extends the capital indicator, mode switches of symbol and
\* word scope, a terminator; multi-cell entries that start with an indicator
\* cell, one of them a prefix of a longer entry, one shadowed by a grade1 entry
\* with the same key.
IndicatorDef(id, dots, action, targetMode, scope, indicatorType, modifier) ==
    [id |-> id, dots |-> dots, dotsKey |-> Join(dots), action |-> action,
     targetMode |-> targetMode, scope |-> scope, indicatorType |-> indicatorType,
     modifier |-> modifier]

MultiCellEntry(id, dots, print, mode) ==
    [id |-> id, dots |-> dots, dotsKey |-> Join(dots), print |-> print, mode |-> mode]

ProfileIndicators ==
    << IndicatorDef("capital", <<K(<<6>>)>>, "enter", "grade1", "symbol", "modifier", "capital"),
       IndicatorDef("capital_word", <<K(<<6>>), K(<<6>>)>>, "enter", "grade1", "word",
                    "modifier", "capital"),
       IndicatorDef("numeric", <<K(<<3, 4, 5, 6>>)>>, "enter", "grade1", "symbol",
                    "modifier", "numeric"),
       IndicatorDef("grade1_symbol", <<K(<<5, 6>>)>>, "enter", "grade1", "symbol",
                    "mode_switch", NULL),
       IndicatorDef("kana_word", <<K(<<1, 6>>), K(<<1, 3>>)>>, "enter", "kana", "word",
                    "mode_switch", NULL),
       IndicatorDef("kana_terminator", <<K(<<1, 6>>), K(<<3>>)>>, "exit", "kana", "symbol",
                    "mode_switch", NULL) >>

ProfileEntries ==
    << MultiCellEntry("close_inner_quote", <<K(<<6>>), K(<<3, 5, 6>>)>>, <<"u2019">>, "grade1"),
       MultiCellEntry("open_inner_quote", <<K(<<6>>), K(<<2, 3, 6>>)>>, <<"u2018">>, "grade1"),
       MultiCellEntry("open_inner_quote_apostrophe", <<K(<<6>>), K(<<2, 3, 6>>), K(<<3>>)>>,
                      <<"u2018", "u0027">>, "grade1"),
       MultiCellEntry("know", <<K(<<5>>), K(<<1, 3>>)>>, <<"k", "n", "o", "w">>, "grade1"),
       MultiCellEntry("kana_open_double", <<K(<<6>>), K(<<2, 3, 6>>)>>, <<"u300E">>, "kana") >>

SingleCellRow(dots, mode, print, role) ==
    [dots |-> dots, mode |-> mode, print |-> print, role |-> role]

ProfileSingleCellMap ==
    { SingleCellRow(K(<<1>>), "grade1", <<"a">>, "letter"),
      SingleCellRow(K(<<1>>), "kana", <<"u3042">>, "letter"),
      SingleCellRow(K(<<1, 2>>), "grade1", <<"b">>, "letter"),
      SingleCellRow(K(<<1, 3>>), "grade1", <<"k">>, "letter"),
      SingleCellRow(K(<<2, 3, 6>>), "grade1", <<"?">>, "punctuation"),
      SingleCellRow(K(<<3>>), "grade1", <<"u0027">>, "punctuation"),
      SingleCellRow(K(<<3, 6>>), "grade1", <<"-">>, "punctuation"),
      SingleCellRow(K(<<3, 6>>), "kana", <<"u300C">>, "open") }

ProfileNumericMap ==
    { [dots |-> K(<<1>>), print |-> <<"1">>],
      [dots |-> K(<<1, 2>>), print |-> <<"2">>] }

\* ---------------------------------------------------------------- data/unified-table
\* A raw entry has id, dots (its cells, each a string of digits in any order),
\* print, role, category, subcategory and tags. A print of null and the empty
\* print are both <<>>: the unifier tests `entry.print` for truth only.
RawEntry(id, dots, print, role, category, subcategory, tags) ==
    [id |-> id, dots |-> dots, print |-> print, role |-> role, category |-> category,
     subcategory |-> subcategory, tags |-> tags]

\* MODIFIER_SUBCATEGORIES[subcategory], NULL for undefined.
MODIFIER_SUBCATEGORIES(subcategory) ==
    CASE subcategory = "capital" -> "capital"
      [] subcategory = "numeric" -> "numeric"
      [] subcategory \in {"italic", "bold", "underline", "script"} -> "typeform"
      [] OTHER -> NULL

\* String.prototype.includes on a braille_type, which is held as its words.
includes(words, word) == \E i \in 1..Len(words) : words[i] = word

systemIdToModes(systemId, brailleType) ==
    IF systemId = "kana" THEN <<"kana">>
    ELSE IF systemId = "nemeth" THEN <<"nemeth">>
    ELSE LET hasGrade1 == includes(brailleType, "grade1")
             hasGrade2 == includes(brailleType, "grade2")
         IN IF hasGrade1 /\ hasGrade2 THEN <<"grade1", "grade2">>
            ELSE IF hasGrade2 THEN <<"grade2">>
            ELSE <<"grade1">>

\* split("").sort().join("") on a cell: its digits in ascending order.
RECURSIVE InsertSorted(_, _)
InsertSorted(c, s) ==
    IF Len(s) = 0 THEN <<c>>
    ELSE IF DotOf(c) <= DotOf(s[1]) THEN <<c>> \o s
    ELSE <<s[1]>> \o InsertSorted(c, Tail(s))

RECURSIVE sortChars(_)
sortChars(s) == IF Len(s) = 0 THEN <<>> ELSE InsertSorted(s[1], sortChars(Tail(s)))

\* The unifier's dotsToKey: one cell sorted, several cells sorted and joined.
UnifiedTable_dotsToKey(dots) ==
    IF Len(dots) = 1 THEN sortChars(dots[1])
    ELSE Join([i \in 1..Len(dots) |-> sortChars(dots[i])])

\* A mapping of the single-cell table: unified.mappings[mode] of the entry of
\* key `dots`, as a row [dots, mode, print, role, id]; at most one per key and mode.
DotMapping(dots, mode, entry) ==
    [dots |-> dots, mode |-> mode, print |-> entry.print, role |-> entry.role,
     id |-> entry.id]

IsPaired(role) == role = "open" \/ role = "close"

\* processSingleCell in which a later open/close entry replaces an earlier one.
processSingleCell_LastPaired(entry, mode, map) ==
    IF entry.print = <<>> THEN map
    ELSE LET key == UnifiedTable_dotsToKey(entry.dots)
             mapping == DotMapping(key, mode, entry)
             existing == {r \in map : r.dots = key /\ r.mode = mode}
         IN IF existing = {} THEN map \cup {mapping}
            ELSE IF IsPaired(entry.role) THEN (map \ existing) \cup {mapping}
            ELSE map

processSingleCell(entry, mode, map) ==
    IF entry.print = <<>> THEN map
    ELSE LET key == UnifiedTable_dotsToKey(entry.dots)
             mapping == DotMapping(key, mode, entry)
             existing == {r \in map : r.dots = key /\ r.mode = mode}
         IN IF existing = {} THEN map \cup {mapping}
            ELSE LET old == CHOOSE r \in existing : TRUE
                     newIsPaired == IsPaired(entry.role)
                     existingIsPaired == IsPaired(old.role)
                 IN IF newIsPaired /\ ~existingIsPaired
                    THEN (map \ existing) \cup {mapping}
                    ELSE map

\* String.prototype.includes("terminator") on an entry id, for the ids in use.
IdIncludesTerminator(id) == id \in {"capital_terminator"}

\* The target mode processIndicator computes from tags and subcategory.
IndicatorTargetMode(entry) ==
    IF "kana" \in entry.tags \/ entry.subcategory = "kana" THEN "kana"
    ELSE IF "grade1" \in entry.tags \/ entry.subcategory = "grade1" THEN "grade1"
    ELSE IF entry.subcategory = "nemeth" \/ "nemeth" \in entry.tags THEN "nemeth"
    ELSE "grade1"

\* processIndicator of the unifier: the IndicatorDef pushed for a raw entry.
UnifiedTable_processIndicator(entry, indicators) ==
    LET isTerminator == "terminator" \in entry.tags \/ IdIncludesTerminator(entry.id)
        action == IF isTerminator THEN "exit" ELSE "enter"
        modifierKind == MODIFIER_SUBCATEGORIES(entry.subcategory)
        indicatorType == IF modifierKind # NULL THEN "modifier" ELSE "mode_switch"
        scope == IF "passage" \in entry.tags THEN "passage"
                 ELSE IF "word" \in entry.tags THEN "word"
                 ELSE "symbol"
    IN Append(indicators,
              [IndicatorDef(entry.id, entry.dots, action, IndicatorTargetMode(entry), scope,
                            indicatorType, modifierKind)
                  EXCEPT !.dotsKey = UnifiedTable_dotsToKey(entry.dots)])

processMultiCell(entry, mode, multiCells) ==
    Append(multiCells,
           [MultiCellEntry(entry.id, entry.dots, entry.print, mode)
               EXCEPT !.dotsKey = UnifiedTable_dotsToKey(entry.dots)])

\* for (const mode of modes) processSingleCell(entry, mode, singleCellMap)
RECURSIVE processSingleCellEach(_, _, _)
processSingleCellEach(entry, modes, map) ==
    IF Len(modes) = 0 THEN map
    ELSE processSingleCellEach(entry, Tail(modes), processSingleCell(entry, modes[1], map))

\* for (const mode of modes) processMultiCell(entry, mode, multiCellEntries)
RECURSIVE processMultiCellEach(_, _, _)
processMultiCellEach(entry, modes, multiCells) ==
    IF Len(modes) = 0 THEN multiCells
    ELSE processMultiCellEach(entry, Tail(modes), processMultiCell(entry, modes[1], multiCells))

\* The body of buildUnifiedData's loop with the indicator test on the role alone.
processEntry_RoleOnly(data, modes, entry) ==
    IF entry.role = "indicator"
    THEN [data EXCEPT !.indicators = UnifiedTable_processIndicator(entry, @)]
    ELSE IF Len(entry.dots) = 1
    THEN LET key == UnifiedTable_dotsToKey(entry.dots)
         IN [data EXCEPT
                !.singleCellMap = processSingleCellEach(entry, modes, @),
                !.numericMap =
                    IF entry.role = "numbers" /\ entry.print # <<>>
                       /\ ~\E r \in data.numericMap : r.dots = key
                    THEN @ \cup {[dots |-> key, print |-> entry.print, role |-> entry.role,
                                  id |-> entry.id]}
                    ELSE @]
    ELSE IF Len(entry.dots) > 1 /\ entry.print # <<>>
    THEN [data EXCEPT !.multiCellEntries = processMultiCellEach(entry, modes, @)]
    ELSE data

\* The body of buildUnifiedData's loop over a profile's entries.
processEntry(data, modes, entry) ==
    IF entry.role = "indicator" \/ entry.category = "indicator"
    THEN [data EXCEPT !.indicators = UnifiedTable_processIndicator(entry, @)]
    ELSE IF Len(entry.dots) = 1
    THEN LET key == UnifiedTable_dotsToKey(entry.dots)
         IN [data EXCEPT
                !.singleCellMap = processSingleCellEach(entry, modes, @),
                !.numericMap =
                    IF entry.role = "numbers" /\ entry.print # <<>>
                       /\ ~\E r \in data.numericMap : r.dots = key
                    THEN @ \cup {[dots |-> key, print |-> entry.print, role |-> entry.role,
                                  id |-> entry.id]}
                    ELSE @]
    ELSE IF Len(entry.dots) > 1 /\ entry.print # <<>>
    THEN [data EXCEPT !.multiCellEntries = processMultiCellEach(entry, modes, @)]
    ELSE data

\* for (const entry of profile.entries) ...
RECURSIVE processEntries(_, _, _)
processEntries(data, modes, entries) ==
    IF Len(entries) = 0 THEN data
    ELSE processEntries(processEntry(data, modes, entries[1]), modes, Tail(entries))

\* for (const [systemId, profiles] of allProfiles) for (const profile of profiles):
\* `profiles` is the map flattened in iteration order, each profile carrying
\* its system id.
RECURSIVE processProfiles(_, _)
processProfiles(data, profiles) ==
    IF Len(profiles) = 0 THEN data
    ELSE processProfiles(
             processEntries(data,
                            systemIdToModes(profiles[1].system_id, profiles[1].braille_type),
                            profiles[1].entries),
             Tail(profiles))

buildUnifiedData(profiles) ==
    processProfiles([built |-> TRUE, singleCellMap |-> {}, numericMap |-> {},
                     indicators |-> <<>>, multiCellEntries |-> <<>>],
                    profiles)

\* The chords the keyboard delivers: {0} is the space chord.
Chords ==
    { {0}, {1}, {1, 2}, {1, 3}, {6}, {2, 3, 6}, {3, 4, 5, 6}, {5, 6}, {1, 6}, {3}, {5},
      {3, 5, 6}, {3, 6} }

\* ---------------------------------------------------------------- extension.ts
\* The driver's state while a handler runs: the module-level objects and
\* flags, and `log`, the observation of what the handler did, in order.
Event(kind, cell, id, print, text, code, via, tried, num) ==
    [kind |-> kind, cell |-> cell, id |-> id, print |-> print, text |-> text,
     code |-> code, via |-> via, tried |-> tried, num |-> num, indicator |-> NoIndicator,
     ok |-> TRUE, cb |-> <<>>, changed |-> FALSE, cells |-> <<>>, mode |-> NULL,
     modifier |-> NULL, held |-> <<>>]

Record(w, ev) == [w EXCEPT !.log = Append(@, ev)]

\* output/braille-tracker.ts. `lineData` is kept as whether it holds any cell:
\* the cursor positions the cells are recorded at are the host's.
\* ---------------------------------------------------------------- BrailleTracker
\* The tracker's Map lineData: `keys`, the line numbers in insertion order,
\* and `rows`, the array of dot keys of each line. The empty string is <<>>.
NewLineData == [keys |-> <<>>, rows |-> <<>>]

\* No tracker call made yet; `recorded` is the set of lines recorded since
\* the last clear().
NoTrackerObs ==
    [op |-> "new", line |-> 0, col |-> 0, key |-> <<>>, pre |-> NewLineData,
     recorded |-> {}, calls |-> 0]

\* lineData.has(line)
LineData_has(ld, line) == \E i \in 1..Len(ld.keys) : ld.keys[i] = line

\* lineData.get(line), the array of the line; <<>> stands for undefined too.
LineData_get(ld, line) ==
    IF LineData_has(ld, line)
    THEN ld.rows[CHOOSE i \in 1..Len(ld.keys) : ld.keys[i] = line]
    ELSE <<>>

\* while (arr.length <= col) arr.push("")
RECURSIVE FillTo(_, _)
FillTo(arr, col) == IF Len(arr) <= col THEN FillTo(Append(arr, <<>>), col) ELSE arr

\* record whose loop stops one short (arr.length < col): the entry at col is
\* not created.
record_ShortFill(ld, line, col, dotsKey) ==
    LET known == LineData_has(ld, line)
        arr == LineData_get(ld, line)
        filled == IF Len(arr) < col THEN FillTo(arr, col - 1) ELSE arr
        stored == IF col + 1 <= Len(filled) THEN [filled EXCEPT ![col + 1] = dotsKey]
                  ELSE filled
    IN IF known
       THEN [ld EXCEPT !.rows = [i \in 1..Len(ld.keys) |->
                                    IF ld.keys[i] = line THEN stored ELSE ld.rows[i]]]
       ELSE [keys |-> Append(ld.keys, line), rows |-> Append(ld.rows, stored)]

\* BrailleTracker.record(line, col, dotsKey)
record(ld, line, col, dotsKey) ==
    LET known == LineData_has(ld, line)
        arr == LineData_get(ld, line)
        stored == [FillTo(arr, col) EXCEPT ![col + 1] = dotsKey]
    IN IF known
       THEN [ld EXCEPT !.rows = [i \in 1..Len(ld.keys) |->
                                    IF ld.keys[i] = line THEN stored ELSE ld.rows[i]]]
       ELSE [keys |-> Append(ld.keys, line), rows |-> Append(ld.rows, stored)]

\* BrailleTracker.recordSpace(line, col)
recordSpace(ld, line, col) == record(ld, line, col, <<>>)

\* BrailleTracker.hasLine(line)
hasLine(ld, line) == LineData_has(ld, line) /\ Len(LineData_get(ld, line)) > 0

\* sort((a, b) => a - b) on line numbers.
RECURSIVE InsertAscending(_, _)
InsertAscending(n, s) ==
    IF Len(s) = 0 THEN <<n>>
    ELSE IF n - s[1] <= 0 THEN <<n>> \o s
    ELSE <<s[1]>> \o InsertAscending(n, Tail(s))

RECURSIVE sortNumeric(_)
sortNumeric(s) == IF Len(s) = 0 THEN <<>> ELSE InsertAscending(s[1], sortNumeric(Tail(s)))

\* BrailleTracker.getTrackedLines()
getTrackedLines(ld) == sortNumeric(ld.keys)

\* BrailleTracker.clear()
clear(ld) == NewLineData

\* The driver keeps of its tracker only whether it holds anything: the cursor
\* position of the host is not part of the driver's state.
NewBrailleTracker == [hasData |-> FALSE]

BrailleTracker_record(tracker, dotsKey) == [tracker EXCEPT !.hasData = TRUE]

BrailleTracker_recordSpace(tracker) == BrailleTracker_record(tracker, <<>>)

BrailleTracker_clear(tracker) == [tracker EXCEPT !.hasData = FALSE]

\* EditorOutput.insert(ev.text, ev.cell): false without an active editor;
\* the cell is recorded in the tracker when the edit is made. `ok` is the
\* value returned, which no caller in extension.ts reads; `held` observes the
\* cells the indicator matcher is holding when the insert is made.
EditorOutput_insert(w, ev) ==
    Record([w EXCEPT !.tracker = IF w.hasEditor THEN BrailleTracker_record(@, ev.cell)
                                 ELSE @],
           [ev EXCEPT !.ok = w.hasEditor, !.held = w.im.pendingCells])

\* EditorOutput.insertSpace(): insert(" ") without a dot key, then recordSpace.
EditorOutput_insertSpace(w, ev) ==
    Record([w EXCEPT !.tracker = IF w.hasEditor THEN BrailleTracker_recordSpace(@) ELSE @],
           [ev EXCEPT !.ok = w.hasEditor])

KanaBracketKey == K(<<3, 6>>)

\* processCharacter without line 329: a cell that is not a digit leaves
\* isNumericMode as it was.
processCharacter_KeepsNumeric(w, dotsKey) ==
    LET mode == getMode(w.sm)
        sm1 == consumeModifier(w.sm)
        modifier == sm1.consumed
        tried == modifier = "numeric" \/ w.isNumericMode
        numMapping == lookupNumeric(w.dm.numericMap, dotsKey)
        mapping == lookup(w.dm.singleCellMap, dotsKey, mode)
        bracket == mode = "kana" /\ dotsKey = KanaBracketKey
        print == IF bracket
                 THEN (IF w.kanaBracketOpen THEN <<"u300C">> ELSE <<"u300D">>)
                 ELSE mapping.print
        text == IF modifier = "capital" THEN toUpperCase(print) ELSE print
        numeric == w.isNumericMode
        seen(ev) == [ev EXCEPT !.mode = mode, !.modifier = modifier]
    IN IF tried /\ numMapping # NoMapping
       THEN EditorOutput_insert([w EXCEPT !.sm = onCharacterEmitted(sm1), !.isNumericMode = TRUE],
                   seen(Event("emit", dotsKey, NULL, numMapping.print, numMapping.print, 0,
                         "numeric", tried, TRUE)))
       ELSE IF mapping # NoMapping
       THEN EditorOutput_insert([w EXCEPT !.sm = onCharacterEmitted(sm1),
                             !.isNumericMode = numeric,
                             !.kanaBracketOpen = IF bracket THEN ~@ ELSE @],
                   seen(Event("emit", dotsKey, NULL, print, text, 0, "normal", tried, numeric)))
       ELSE EditorOutput_insert([w EXCEPT !.sm = onCharacterEmitted(sm1), !.isNumericMode = numeric],
                   seen(Event("emit", dotsKey, NULL, <<>>, <<>>,
                         dotsKeyToUnicodeBraille(dotsKey), "fallback", tried, numeric)))

\* processCharacter that toggles the bracket on cell 36 whatever the mode.
processCharacter_BracketAnyMode(w, dotsKey) ==
    LET mode == getMode(w.sm)
        sm1 == consumeModifier(w.sm)
        modifier == sm1.consumed
        tried == modifier = "numeric" \/ w.isNumericMode
        numMapping == lookupNumeric(w.dm.numericMap, dotsKey)
        mapping == lookup(w.dm.singleCellMap, dotsKey, mode)
        bracket == dotsKey = KanaBracketKey
        print == IF bracket
                 THEN (IF w.kanaBracketOpen THEN <<"u300C">> ELSE <<"u300D">>)
                 ELSE mapping.print
        text == IF modifier = "capital" THEN toUpperCase(print) ELSE print
        numeric == IF tried THEN FALSE ELSE w.isNumericMode
        seen(ev) == [ev EXCEPT !.mode = mode, !.modifier = modifier]
    IN IF tried /\ numMapping # NoMapping
       THEN EditorOutput_insert([w EXCEPT !.sm = onCharacterEmitted(sm1), !.isNumericMode = TRUE],
                   seen(Event("emit", dotsKey, NULL, numMapping.print, numMapping.print, 0,
                         "numeric", tried, TRUE)))
       ELSE IF mapping # NoMapping
       THEN EditorOutput_insert([w EXCEPT !.sm = onCharacterEmitted(sm1),
                             !.isNumericMode = numeric,
                             !.kanaBracketOpen = IF bracket THEN ~@ ELSE @],
                   seen(Event("emit", dotsKey, NULL, print, text, 0, "normal", tried, numeric)))
       ELSE EditorOutput_insert([w EXCEPT !.sm = onCharacterEmitted(sm1), !.isNumericMode = numeric],
                   seen(Event("emit", dotsKey, NULL, <<>>, <<>>,
                         dotsKeyToUnicodeBraille(dotsKey), "fallback", tried, numeric)))

\* processCharacter: a single cell as a character in the current mode.
processCharacter(w, dotsKey) ==
    LET mode == getMode(w.sm)
        sm1 == consumeModifier(w.sm)
        modifier == sm1.consumed
        tried == modifier = "numeric" \/ w.isNumericMode
        numMapping == lookupNumeric(w.dm.numericMap, dotsKey)
        mapping == lookup(w.dm.singleCellMap, dotsKey, mode)
        bracket == mode = "kana" /\ dotsKey = KanaBracketKey
        print == IF bracket
                 THEN (IF w.kanaBracketOpen THEN <<"u300C">> ELSE <<"u300D">>)
                 ELSE mapping.print
        text == IF modifier = "capital" THEN toUpperCase(print) ELSE print
        numeric == IF tried THEN FALSE ELSE w.isNumericMode
        seen(ev) == [ev EXCEPT !.mode = mode, !.modifier = modifier]
    IN IF tried /\ numMapping # NoMapping
       THEN EditorOutput_insert([w EXCEPT !.sm = onCharacterEmitted(sm1), !.isNumericMode = TRUE],
                   seen(Event("emit", dotsKey, NULL, numMapping.print, numMapping.print, 0,
                         "numeric", tried, TRUE)))
       ELSE IF mapping # NoMapping
       THEN EditorOutput_insert([w EXCEPT !.sm = onCharacterEmitted(sm1),
                             !.isNumericMode = numeric,
                             !.kanaBracketOpen = IF bracket THEN ~@ ELSE @],
                   seen(Event("emit", dotsKey, NULL, print, text, 0, "normal", tried, numeric)))
       ELSE EditorOutput_insert([w EXCEPT !.sm = onCharacterEmitted(sm1), !.isNumericMode = numeric],
                   seen(Event("emit", dotsKey, NULL, <<>>, <<>>,
                         dotsKeyToUnicodeBraille(dotsKey), "fallback", tried, numeric)))

\* for (const cellKey of cells) await processCharacter(cellKey)
RECURSIVE processCharacterEach(_, _)
processCharacterEach(w, cells) ==
    IF Len(cells) = 0 THEN w
    ELSE processCharacterEach(processCharacter(w, cells[1]), Tail(cells))

\* emitMultiCellMatch without lines 302-304: the entry's print as it is.
emitMultiCellMatch_NoUpper(w, entry) ==
    LET sm1 == consumeModifier(w.sm)
    IN EditorOutput_insert([w EXCEPT !.sm = onCharacterEmitted(sm1), !.isNumericMode = FALSE],
              Event("emit", entry.dotsKey, entry.id, entry.print, entry.print, 0, "multi",
                    FALSE, FALSE))

\* emitMultiCellMatch: a matched multi-cell entry, with the pending modifier.
emitMultiCellMatch(w, entry) ==
    LET sm1 == consumeModifier(w.sm)
        modifier == sm1.consumed
        text == IF modifier = "capital" THEN toUpperCase(entry.print) ELSE entry.print
    IN EditorOutput_insert([w EXCEPT !.sm = onCharacterEmitted(sm1), !.isNumericMode = FALSE],
              Event("emit", entry.dotsKey, entry.id, entry.print, text, 0, "multi",
                    FALSE, FALSE))

\* The two "matched" branches of processCellFallback.
ApplyIndicator(w, indicator) ==
    LET after == processIndicator(w.sm, indicator)
    IN Record([w EXCEPT !.sm = after,
                        !.isNumericMode = IF indicator.modifier = "numeric" THEN TRUE ELSE @],
              [Event("apply", indicator.dotsKey, indicator.id, <<>>, <<>>, 0, NULL, FALSE,
                     FALSE)
                  EXCEPT !.indicator = indicator,
                         !.cb = SubSeq(after.cbLog, Len(w.sm.cbLog) + 1, Len(after.cbLog)),
                         !.changed = SMCore(after) # SMCore(w.sm)])

\* processCellFallback: a cell the multi-cell matcher released.
processCellFallback(w, dotsKey) ==
    LET m == IndicatorMatcher_tryMatch(w.im, dotsKey)
        w1 == Record([w EXCEPT !.im = m.im],
                     [Event("indOffer", dotsKey, m.result.type, <<>>, <<>>, 0, NULL,
                            FALSE, FALSE)
                         EXCEPT !.cells = IF m.result.type = "matched_with_leftover"
                                          THEN m.result.leftoverCells
                                          ELSE IF m.result.type = "none"
                                          THEN m.result.bufferedCells
                                          ELSE <<>>])
    IN IF m.result.type = "matched"
       THEN ApplyIndicator(w1, m.result.indicator)
       ELSE IF m.result.type = "matched_with_leftover"
       THEN processCharacterEach(ApplyIndicator(w1, m.result.indicator),
                                 m.result.leftoverCells)
       ELSE IF m.result.type = "pending"
       THEN w1
       ELSE processCharacterEach(w1, m.result.bufferedCells)

\* for (const cellKey of cells) await processCellFallback(cellKey)
RECURSIVE processCellFallbackEach(_, _)
processCellFallbackEach(w, cells) ==
    IF Len(cells) = 0 THEN w
    ELSE processCellFallbackEach(processCellFallback(w, cells[1]), Tail(cells))

\* flushAllPending with its two loops exchanged: the indicator buffer first.
flushAllPending_IndicatorFirst(w) ==
    LET indPending == w.im.pendingCells
        w1 == processCharacterEach(
                  Record([w EXCEPT !.im = IndicatorMatcher_flushPending(w.im)],
                         [Event("indFlush", Join(indPending), NULL, <<>>, <<>>,
                                Len(indPending), NULL, FALSE, FALSE)
                             EXCEPT !.cells = indPending]),
                  indPending)
        mcPending == w1.mc.pendingCells
    IN processCellFallbackEach(
           [w1 EXCEPT !.mc = MultiCellMatcher_flushPending(w1.mc)], mcPending)

\* flushAllPending: both matchers' buffers, multi-cell first.
flushAllPending(w) ==
    LET mcPending == w.mc.pendingCells
        w1 == processCellFallbackEach(
                  [w EXCEPT !.mc = MultiCellMatcher_flushPending(w.mc)], mcPending)
        indPending == w1.im.pendingCells
    IN processCharacterEach(
           Record([w1 EXCEPT !.im = IndicatorMatcher_flushPending(w1.im)],
                  [Event("indFlush", Join(indPending), NULL, <<>>, <<>>, Len(indPending),
                         NULL, FALSE, FALSE)
                      EXCEPT !.cells = indPending]),
           indPending)

\* handleChord: a completed chord.
handleChord(w, dots) ==
    IF 0 \in dots
    THEN LET w1 == EditorOutput_insertSpace(flushAllPending(w),
                          Event("space", <<>>, NULL, <<" ">>, <<" ">>, 0, NULL, FALSE, FALSE))
         IN [w1 EXCEPT !.sm = onSpace(w1.sm), !.isNumericMode = FALSE]
    ELSE LET dotsKey == dotsToKey(dots)
             mode == getMode(w.sm)
             m == MultiCellMatcher_tryMatch(w.mc, dotsKey, mode)
             w1 == Record([w EXCEPT !.mc = m.mc],
                          Event("mcOffer", dotsKey, m.result.type, <<>>, <<>>, 0, NULL,
                                FALSE, FALSE))
         IN IF m.result.type = "matched"
            THEN emitMultiCellMatch(w1, m.result.entry)
            ELSE IF m.result.type = "matched_with_leftover"
            THEN processCellFallbackEach(emitMultiCellMatch(w1, m.result.entry),
                                         m.result.leftoverCells)
            ELSE IF m.result.type = "pending"
            THEN w1
            ELSE processCellFallbackEach(w1, m.result.bufferedCells)

\* ------------------------------------------------ the driver
\* The observation of a capital indicator: "due" once a capital enter is
\* applied, "replaced" once another modifier indicator is applied over it,
\* "none" again after the next character emission.
CapAfterEvent(cap, ev) ==
    IF ev.kind = "apply" /\ ev.indicator.indicatorType = "modifier"
    THEN IF ev.indicator.action = "enter" /\ ev.indicator.modifier = "capital"
         THEN "due"
         ELSE IF cap = "none" THEN "none" ELSE "replaced"
    ELSE IF ev.kind = "emit" THEN "none"
    ELSE cap

RECURSIVE CapAfter(_, _)
CapAfter(cap, events) ==
    IF Len(events) = 0 THEN cap
    ELSE CapAfter(CapAfterEvent(cap, events[1]), Tail(events))

\* The observation of numeric arming: set by an applied numeric indicator,
\* cleared by a space.
ArmedAfterEvent(armed, ev) ==
    IF ev.kind = "apply" /\ ev.indicator.modifier = "numeric" /\ ev.indicator.action = "enter"
    THEN TRUE
    ELSE IF ev.kind = "space" THEN FALSE
    ELSE armed

RECURSIVE ArmedAfter(_, _)
ArmedAfter(armed, events) ==
    IF Len(events) = 0 THEN armed
    ELSE ArmedAfter(ArmedAfterEvent(armed, events[1]), Tail(events))

\* The observation of a run of digits: set by a cell emitted from the numeric
\* table, cleared by any other emission and by a space.
InNumberAfterEvent(n, ev) ==
    IF ev.kind = "emit" THEN ev.via = "numeric"
    ELSE IF ev.kind = "space" THEN FALSE
    ELSE n

RECURSIVE InNumberAfter(_, _)
InNumberAfter(n, events) ==
    IF Len(events) = 0 THEN n
    ELSE InNumberAfter(InNumberAfterEvent(n, events[1]), Tail(events))

\* No chord-detector call yet. `pressed` is the set of dots pressed since the
\* last delivery or cancel, `prePressed` that set before the call, `presses`
\* the number of press calls made.
NoCdObs ==
    [op |-> "new", dot |-> 0, pre |-> NewChordDetector(DefaultChordTimeout),
     pressed |-> {}, prePressed |-> {}, presses |-> 0]

\* No matcher call yet.
NoMatchOp == [name |-> "new"]

\* buildUnifiedData has not run.
NoUnifiedData ==
    [built |-> FALSE, singleCellMap |-> {}, numericMap |-> {}, indicators |-> <<>>,
     multiCellEntries |-> <<>>]

InitUnifier ==
    /\ allProfiles = <<>>
    /\ unifiedData = NoUnifiedData

\* activate(): new BrailleTracker(dotMapper); an editor is open.
InitHost ==
    /\ hasEditor = TRUE
    /\ brailleTracker = NewBrailleTracker
    /\ lineData = NewLineData
    /\ trackerObs = NoTrackerObs

\* No handleChord call has been made. `presses` counts the dot presses taken,
\* `calls` the handleChord calls; `lastIssued` is the number of the latest call
\* among those that requested an edit; `overlap` is set when a call starts
\* while an earlier one is suspended, `outOfOrder` when a call requests an
\* edit after a later call has requested one.
NoAsyncObs ==
    [presses |-> 0, calls |-> 0, lastIssued |-> 0, overlap |-> FALSE, outOfOrder |-> FALSE]

InitEventLoop ==
    /\ inFlight = <<>>
    /\ asyncObs = NoAsyncObs

NoDrvPre ==
    [sm |-> setModeChangeCallback(NewStateMachine("grade1")),
     imPending |-> <<>>, imDeferred |-> NoIndicator, mcPending |-> <<>>,
     isNumericMode |-> FALSE, kanaBracketOpen |-> TRUE,
     numericArmed |-> FALSE, capDue |-> "none", inNumber |-> FALSE,
     tracker |-> NewBrailleTracker]

\* activate(): the objects as constructed and loaded with the unified tables.
InitDriver ==
    /\ indicatorMatcher = setIndicators(NewIndicatorMatcher, ProfileIndicators)
    /\ multiCellMatcher = setEntries(NewMultiCellMatcher, ProfileEntries)
    /\ dotMapper = [singleCellMap |-> ProfileSingleCellMap, numericMap |-> ProfileNumericMap]
    /\ isNumericMode = FALSE
    /\ kanaBracketOpen = TRUE
    /\ chord = {}
    /\ log = <<>>
    /\ drvPre = NoDrvPre
    /\ numericArmed = FALSE
    /\ capDue = "none"
    /\ inNumber = FALSE
    /\ isActive = FALSE
    /\ matchOp = NoMatchOp
    /\ InitUnifier
    /\ InitHost
    /\ InitEventLoop

\* activate(): new ChordDetector(chordTimeout, ...) with the configured default.
InitChordDetector ==
    /\ chordDetector = NewChordDetector(DefaultChordTimeout)
    /\ cdObs = NoCdObs

\* ------------------------------------------------ the state machine on its own
\* The indicators handed to processIndicator: every mode switch, and the
\* modifier indicators of one kind, with a modifier and without, enter and exit
\* (target mode, scope and kind of a modifier indicator are not read).
SMIndicators ==
    { makeIndicator(m, a, s, "mode_switch", NULL) :
          m \in IndicatorTargetModes, a \in {"enter", "exit"}, s \in Scopes }
    \cup
    { makeIndicator("grade1", "enter", "symbol", "modifier", k) : k \in {"capital", NULL} }
    \cup
    { makeIndicator("grade1", "exit", "symbol", "modifier", "capital") }

IsModeSwitch(ind) == ind.indicatorType = "mode_switch"

IsEffectiveEnter(sm, ind) ==
    /\ IsModeSwitch(ind)
    /\ ind.action = "enter"
    /\ ~(sm.currentMode = ind.targetMode /\ sm.activeScope = ind.scope)

\* A call starts with the observations of the previous call wiped.
Begin(sm) == [sm EXCEPT !.cbLog = <<>>, !.ret = FALSE, !.consumed = NULL]

NoSymEnter == [from |-> NULL, stage |-> "none"]

NoWordEnter == [from |-> NULL, to |-> NULL, depth |-> 0, stage |-> "none"]

NoRoundTrip ==
    [currentMode |-> NULL, activeScope |-> NULL, depth |-> 0, targetMode |-> NULL,
     scope |-> NULL, effective |-> FALSE, stage |-> "none"]

\* Observation of a symbol-scope enter: opened by the enter, "due" at the first
\* onCharacterEmitted that follows with no mode switch or reset in between,
\* "after" at a second onCharacterEmitted right behind it.
SymEnterAfter(sm, name, ind) ==
    IF name = "processIndicator" /\ IsEffectiveEnter(sm, ind) /\ ind.scope = "symbol"
    THEN [from |-> sm.currentMode, stage |-> "open"]
    ELSE IF symEnter.stage = "none" THEN NoSymEnter
    ELSE IF name = "onCharacterEmitted" /\ symEnter.stage = "open"
    THEN [symEnter EXCEPT !.stage = "due"]
    ELSE IF name = "onCharacterEmitted" /\ symEnter.stage = "due"
    THEN [symEnter EXCEPT !.stage = "after"]
    ELSE IF symEnter.stage = "open" /\ name \in {"consumeModifier", "onSpace"}
    THEN symEnter
    ELSE IF symEnter.stage = "open" /\ name = "processIndicator" /\ ~IsModeSwitch(ind)
    THEN symEnter
    ELSE NoSymEnter

\* Observation of a word-scope enter: opened by the enter, kept while nested
\* mode switches are entered and returned from, "due" at the next onSpace.
WordEnterAfter(sm, after, name, ind) ==
    IF name = "processIndicator" /\ IsEffectiveEnter(sm, ind) /\ ind.scope = "word"
    THEN [from |-> sm.currentMode, to |-> ind.targetMode,
          depth |-> Len(sm.modeStack) + 1, stage |-> "open"]
    ELSE IF wordEnter.stage # "open" \/ name = "reset" THEN NoWordEnter
    ELSE IF name = "onSpace" THEN [wordEnter EXCEPT !.stage = "due"]
    ELSE IF Len(after.modeStack) < wordEnter.depth THEN NoWordEnter
    ELSE wordEnter

\* Observation of an enter/exit round trip: the machine before a mode-switch
\* enter, kept through the matching exit when it is the very next call.
RoundTripAfter(sm, name, ind) ==
    IF name = "processIndicator" /\ IsModeSwitch(ind) /\ ind.action = "enter"
    THEN [currentMode |-> sm.currentMode, activeScope |-> sm.activeScope,
          depth |-> Len(sm.modeStack), targetMode |-> ind.targetMode,
          scope |-> ind.scope, effective |-> IsEffectiveEnter(sm, ind),
          stage |-> "entered"]
    ELSE IF /\ roundTrip.stage = "entered"
            /\ name = "processIndicator" /\ IsModeSwitch(ind) /\ ind.action = "exit"
            /\ ind.targetMode = roundTrip.targetMode /\ ind.scope = roundTrip.scope
    THEN [roundTrip EXCEPT !.stage = "exited"]
    ELSE NoRoundTrip

Observe(name, ind) ==
    /\ smOp' = [name |-> name, indicator |-> ind]
    /\ smPre' = stateMachine
    /\ symEnter' = SymEnterAfter(stateMachine, name, ind)
    /\ wordEnter' = WordEnterAfter(stateMachine, stateMachine', name, ind)
    /\ roundTrip' = RoundTripAfter(stateMachine, name, ind)

\* The modes the machine is constructed in: the default, and one that is not
\* grade1 (the constructor takes any mode).
InitialModes == {"grade1", "kana"}

\* new StateMachine(initialMode) followed by setModeChangeCallback(...).
InitSM ==
    /\ \E m \in InitialModes : stateMachine = setModeChangeCallback(NewStateMachine(m))
    /\ smOp = [name |-> "new", indicator |-> NoIndicator]
    /\ smPre = stateMachine
    /\ symEnter = NoSymEnter
    /\ wordEnter = NoWordEnter
    /\ roundTrip = NoRoundTrip
    /\ InitDriver
    /\ InitChordDetector

SMProcessIndicator(ind) ==
    /\ IsEffectiveEnter(stateMachine, ind) => Len(stateMachine.modeStack) < MaxStack
    /\ stateMachine' = processIndicator(Begin(stateMachine), ind)
    /\ Observe("processIndicator", ind)
    /\ UNCHANGED drvVars

SMConsumeModifier ==
    /\ stateMachine' = consumeModifier(Begin(stateMachine))
    /\ Observe("consumeModifier", NoIndicator)
    /\ UNCHANGED drvVars

SMOnCharacterEmitted ==
    /\ stateMachine' = onCharacterEmitted(Begin(stateMachine))
    /\ Observe("onCharacterEmitted", NoIndicator)
    /\ UNCHANGED drvVars

SMOnSpace ==
    /\ stateMachine' = onSpace(Begin(stateMachine))
    /\ Observe("onSpace", NoIndicator)
    /\ UNCHANGED drvVars

SMReset ==
    /\ stateMachine' = reset(Begin(stateMachine))
    /\ Observe("reset", NoIndicator)
    /\ UNCHANGED drvVars

NextSM ==
    \/ \E ind \in SMIndicators : SMProcessIndicator(ind)
    \/ SMConsumeModifier
    \/ SMOnCharacterEmitted
    \/ SMOnSpace
    \/ SMReset

SpecSM == InitSM /\ [][NextSM]_vars

\* ------------------------------------------------ the driver's steps
Init ==
    /\ stateMachine = setModeChangeCallback(NewStateMachine("grade1"))
    /\ smOp = [name |-> "new", indicator |-> NoIndicator]
    /\ smPre = stateMachine
    /\ symEnter = NoSymEnter
    /\ wordEnter = NoWordEnter
    /\ roundTrip = NoRoundTrip
    /\ InitDriver
    /\ InitChordDetector

World ==
    [sm |-> Begin(stateMachine), im |-> indicatorMatcher, mc |-> multiCellMatcher,
     dm |-> dotMapper, isNumericMode |-> isNumericMode,
     kanaBracketOpen |-> kanaBracketOpen, log |-> <<>>,
     hasEditor |-> hasEditor, tracker |-> brailleTracker]

\* The chord detector's callback: handleChord(dots), run to completion.
HandleChord(dots) ==
    \E w \in {handleChord(World, dots)} :
       /\ isActive
       /\ Len(w.sm.modeStack) <= MaxStack
       /\ stateMachine' = w.sm
       /\ indicatorMatcher' = w.im
       /\ multiCellMatcher' = w.mc
       /\ isNumericMode' = w.isNumericMode
       /\ kanaBracketOpen' = w.kanaBracketOpen
       /\ brailleTracker' = w.tracker
       /\ chord' = dots
       /\ log' = w.log
       /\ drvPre' = [sm |-> stateMachine, imPending |-> indicatorMatcher.pendingCells,
                     imDeferred |-> indicatorMatcher.deferredMatch,
                     mcPending |-> multiCellMatcher.pendingCells,
                     isNumericMode |-> isNumericMode,
                     kanaBracketOpen |-> kanaBracketOpen,
                     numericArmed |-> numericArmed, capDue |-> capDue,
                     inNumber |-> inNumber, tracker |-> brailleTracker]
       /\ numericArmed' = ArmedAfter(numericArmed, w.log)
       /\ capDue' = CapAfter(capDue, w.log)
       /\ inNumber' = InNumberAfter(inNumber, w.log)
       /\ UNCHANGED <<dotMapper, isActive, smOp, smPre, symEnter, wordEnter, roundTrip,
                      chordDetector, cdObs, matchOp, hasEditor, extVars>>

\* The braille.toggleMode command: switching off resets the engine.
ToggleMode ==
    /\ isActive' = ~isActive
    /\ IF isActive
       THEN /\ chordDetector' = ChordDetector_cancel(chordDetector)
            /\ indicatorMatcher' = IndicatorMatcher_reset(indicatorMatcher)
            /\ multiCellMatcher' = MultiCellMatcher_reset(multiCellMatcher)
            /\ stateMachine' = reset(Begin(stateMachine))
            /\ isNumericMode' = FALSE
            /\ kanaBracketOpen' = TRUE
            /\ brailleTracker' = BrailleTracker_clear(brailleTracker)
       ELSE UNCHANGED <<chordDetector, indicatorMatcher, multiCellMatcher, stateMachine,
                        isNumericMode, kanaBracketOpen, brailleTracker>>
    /\ chord' = {}
    /\ log' = <<>>
    /\ drvPre' = NoDrvPre
    /\ numericArmed' = FALSE
    /\ capDue' = "none"
    /\ inNumber' = FALSE
    /\ UNCHANGED <<dotMapper, smOp, smPre, symEnter, wordEnter, roundTrip, cdObs, matchOp,
                   hasEditor, extVars>>

Next ==
    \/ \E dots \in Chords : HandleChord(dots)
    \/ ToggleMode

Spec == Init /\ [][Next]_vars


\* ------------------------------------------------ the chord detector on its own
\* The dots pressed: the space and three of the six dots.
CDDots == {0, 1, 2, 3}

\* The number of press calls in a run.
MaxPresses == 3

\* new ChordDetector(timeout, callback), the callback recording what it is given.
InitCD ==
    /\ stateMachine = setModeChangeCallback(NewStateMachine("grade1"))
    /\ smOp = [name |-> "new", indicator |-> NoIndicator]
    /\ smPre = stateMachine
    /\ symEnter = NoSymEnter
    /\ wordEnter = NoWordEnter
    /\ roundTrip = NoRoundTrip
    /\ InitDriver
    /\ \E T \in ChordTimeouts :
          /\ chordDetector = NewChordDetector(T)
          /\ cdObs = [NoCdObs EXCEPT !.pre = NewChordDetector(T)]

CDObserve(op, dot, pressedAfter) ==
    cdObs' = [op |-> op, dot |-> dot, pre |-> chordDetector,
              pressed |-> pressedAfter, prePressed |-> cdObs.pressed,
              presses |-> cdObs.presses + (IF op = "press" THEN 1 ELSE 0)]

CDFrame == UNCHANGED <<stateMachine, smOp, smPre, symEnter, wordEnter, roundTrip,
                       indicatorMatcher, multiCellMatcher, dotMapper, isNumericMode,
                       kanaBracketOpen, chord, log, drvPre, numericArmed, capDue,
                       inNumber, isActive, matchOp, hasEditor, brailleTracker, extVars>>

CDPress(dot) ==
    /\ cdObs.presses < MaxPresses
    /\ chordDetector' = ChordDetector_press(chordDetector, dot)
    /\ CDObserve("press", dot, IF dot = 0 THEN {} ELSE cdObs.pressed \cup {dot})
    /\ CDFrame

CDFlush ==
    /\ chordDetector' = ChordDetector_flush(chordDetector)
    /\ CDObserve("flush", 0, {})
    /\ CDFrame

CDCancel ==
    /\ chordDetector' = ChordDetector_cancel(chordDetector)
    /\ CDObserve("cancel", 0, {})
    /\ CDFrame

\* The host's event loop runs the timer callback of an armed timer.
CDTimeout ==
    /\ chordDetector.timer # 0
    /\ chordDetector' = ChordDetector_onTimeout(chordDetector)
    /\ CDObserve("timeout", 0, {})
    /\ CDFrame

CDSetTimeout(T) ==
    /\ chordDetector' = ChordDetector_setTimeout(chordDetector, T)
    /\ CDObserve("setTimeout", 0, cdObs.pressed)
    /\ CDFrame

NextCD ==
    \/ \E dot \in CDDots : CDPress(dot)
    \/ CDFlush
    \/ CDCancel
    \/ CDTimeout
    \/ \E T \in ChordTimeouts : CDSetTimeout(T)

SpecCD == InitCD /\ [][NextCD]_vars

\* An armed timer that is not re-armed or cancelled expires.
SpecCDLive == SpecCD /\ WF_vars(CDTimeout)


\* ------------------------------------------------ the indicator matcher on its own
\* The indicator keys the matcher is loaded with: a key, its extensions by one
\* and by two cells, an extension that skips a length, keys that share a first
\* character but not a first cell.
IMKeys ==
    { <<K(<<6>>)>>, <<K(<<6>>), K(<<6>>)>>, <<K(<<6>>), K(<<6>>), K(<<6>>)>>,
      <<K(<<6>>), K(<<6>>), K(<<3>>)>>, <<K(<<6>>), K(<<3>>)>>, <<K(<<3>>)>>,
      <<K(<<1, 6>>), K(<<3>>)>> }

\* The cells handed to tryMatch.
IMCells == { K(<<6>>), K(<<3>>), K(<<1, 6>>), K(<<1>>) }

\* The length of the indicator list.
MaxIndicators == 3

IMIds == <<"i1", "i2", "i3", "i4", "i5">>

\* Indicator lists: every sequence of at most MaxIndicators keys, repeated keys
\* included; the i-th indicator has the id IMIds[i].
IMLists ==
    UNION { { [i \in 1..n |->
                 IndicatorDef(IMIds[i], ks[i], "enter", "grade1", "symbol", "modifier",
                              "capital")] : ks \in [1..n -> IMKeys] } :
            n \in 0..MaxIndicators }

\* Everything but the matcher as activate() leaves it.
InitIM ==
    /\ stateMachine = setModeChangeCallback(NewStateMachine("grade1"))
    /\ smOp = [name |-> "new", indicator |-> NoIndicator]
    /\ smPre = stateMachine
    /\ symEnter = NoSymEnter
    /\ wordEnter = NoWordEnter
    /\ roundTrip = NoRoundTrip
    /\ \E list \in IMLists : indicatorMatcher = setIndicators(NewIndicatorMatcher, list)
    /\ multiCellMatcher = setEntries(NewMultiCellMatcher, ProfileEntries)
    /\ dotMapper = [singleCellMap |-> ProfileSingleCellMap, numericMap |-> ProfileNumericMap]
    /\ isNumericMode = FALSE
    /\ kanaBracketOpen = TRUE
    /\ chord = {}
    /\ log = <<>>
    /\ drvPre = NoDrvPre
    /\ numericArmed = FALSE
    /\ capDue = "none"
    /\ inNumber = FALSE
    /\ isActive = FALSE
    /\ matchOp = NoMatchOp
    /\ InitUnifier
    /\ InitHost
    /\ InitEventLoop
    /\ InitChordDetector

IMFrame == UNCHANGED <<stateMachine, smOp, smPre, symEnter, wordEnter, roundTrip,
                       multiCellMatcher, dotMapper, isNumericMode, kanaBracketOpen,
                       chord, log, drvPre, numericArmed, capDue, inNumber, isActive,
                       chordDetector, cdObs, hasEditor, brailleTracker, extVars>>

IMTryMatch(dotsKey) ==
    \E r \in {IndicatorMatcher_tryMatch(indicatorMatcher, dotsKey)} :
       /\ indicatorMatcher' = r.im
       /\ matchOp' = [name |-> "tryMatch", key |-> dotsKey, pre |-> indicatorMatcher,
                      result |-> r.result]
       /\ IMFrame

IMFlushPending ==
    /\ indicatorMatcher' = IndicatorMatcher_flushPending(indicatorMatcher)
    /\ matchOp' = [name |-> "flushPending", key |-> <<>>, pre |-> indicatorMatcher,
                   result |-> IndicatorMatchResult("none", NoIndicator, <<>>,
                                                   indicatorMatcher.pendingCells)]
    /\ IMFrame

IMReset ==
    /\ indicatorMatcher' = IndicatorMatcher_reset(indicatorMatcher)
    /\ matchOp' = [name |-> "reset", key |-> <<>>, pre |-> indicatorMatcher,
                   result |-> IndicatorMatchResult("none", NoIndicator, <<>>, <<>>)]
    /\ IMFrame

NextIM ==
    \/ \E dotsKey \in IMCells : IMTryMatch(dotsKey)
    \/ IMFlushPending
    \/ IMReset

SpecIM == InitIM /\ [][NextIM]_vars


\* ------------------------------------------------ the multi-cell matcher on its own
\* The keys of the entries the matcher is loaded with: a two-cell key, its
\* extensions by one and by two cells, an unrelated key.
MCKeys ==
    { <<K(<<6>>), K(<<3>>)>>, <<K(<<6>>), K(<<3>>), K(<<6>>)>>,
      <<K(<<6>>), K(<<3>>), K(<<6>>), K(<<1>>)>>, <<K(<<3>>), K(<<6>>)>> }

\* The modes of the entries, and the modes tryMatch is called with.
MCModes == {"grade1", "kana"}

\* The cells handed to tryMatch.
MCCells == { K(<<6>>), K(<<3>>), K(<<1>>) }

\* The length of the entry list.
MaxEntries == 3

\* Entry lists: every sequence of at most MaxEntries (key, mode) pairs, repeated
\* pairs included; the i-th entry has the id IMIds[i] and prints that id.
MCLists ==
    UNION { { [i \in 1..n |-> MultiCellEntry(IMIds[i], ks[i][1], <<IMIds[i]>>, ks[i][2])] :
                  ks \in [1..n -> MCKeys \X MCModes] } :
            n \in 0..MaxEntries }

\* Everything but the matcher as activate() leaves it.
InitMC ==
    /\ stateMachine = setModeChangeCallback(NewStateMachine("grade1"))
    /\ smOp = [name |-> "new", indicator |-> NoIndicator]
    /\ smPre = stateMachine
    /\ symEnter = NoSymEnter
    /\ wordEnter = NoWordEnter
    /\ roundTrip = NoRoundTrip
    /\ indicatorMatcher = setIndicators(NewIndicatorMatcher, ProfileIndicators)
    /\ \E list \in MCLists : multiCellMatcher = setEntries(NewMultiCellMatcher, list)
    /\ dotMapper = [singleCellMap |-> ProfileSingleCellMap, numericMap |-> ProfileNumericMap]
    /\ isNumericMode = FALSE
    /\ kanaBracketOpen = TRUE
    /\ chord = {}
    /\ log = <<>>
    /\ drvPre = NoDrvPre
    /\ numericArmed = FALSE
    /\ capDue = "none"
    /\ inNumber = FALSE
    /\ isActive = FALSE
    /\ matchOp = NoMatchOp
    /\ InitUnifier
    /\ InitHost
    /\ InitEventLoop
    /\ InitChordDetector

MCFrame == UNCHANGED <<stateMachine, smOp, smPre, symEnter, wordEnter, roundTrip,
                       indicatorMatcher, dotMapper, isNumericMode, kanaBracketOpen,
                       chord, log, drvPre, numericArmed, capDue, inNumber, isActive,
                       chordDetector, cdObs, hasEditor, brailleTracker, extVars>>

MCTryMatch(dotsKey, mode) ==
    \E r \in {MultiCellMatcher_tryMatch(multiCellMatcher, dotsKey, mode)} :
       /\ multiCellMatcher' = r.mc
       /\ matchOp' = [name |-> "mcTryMatch", key |-> dotsKey, mode |-> mode,
                      pre |-> multiCellMatcher, result |-> r.result]
       /\ MCFrame

MCFlushPending ==
    /\ multiCellMatcher' = MultiCellMatcher_flushPending(multiCellMatcher)
    /\ matchOp' = [name |-> "mcFlushPending", key |-> <<>>, mode |-> NULL,
                   pre |-> multiCellMatcher,
                   result |-> MultiCellMatchResult("none", NoEntry, <<>>,
                                                   multiCellMatcher.pendingCells)]
    /\ MCFrame

MCReset ==
    /\ multiCellMatcher' = MultiCellMatcher_reset(multiCellMatcher)
    /\ matchOp' = [name |-> "mcReset", key |-> <<>>, mode |-> NULL,
                   pre |-> multiCellMatcher,
                   result |-> MultiCellMatchResult("none", NoEntry, <<>>, <<>>)]
    /\ MCFrame

NextMC ==
    \/ \E dotsKey \in MCCells, mode \in MCModes : MCTryMatch(dotsKey, mode)
    \/ MCFlushPending
    \/ MCReset

SpecMC == InitMC /\ [][NextMC]_vars


\* ------------------------------------------------ the driver and the host's editor
\* The chords delivered while the editor comes and goes: the space, a letter
\* that is also a digit, the capital, numeric and grade1 symbol indicators.
HostChords == { {0}, {1}, {6}, {3, 4, 5, 6}, {5, 6} }

\* The host closes the active editor or opens one.
EditorChange ==
    /\ hasEditor' = ~hasEditor
    /\ UNCHANGED <<stateMachine, smOp, smPre, symEnter, wordEnter, roundTrip,
                   indicatorMatcher, multiCellMatcher, dotMapper, isNumericMode,
                   kanaBracketOpen, chord, log, drvPre, numericArmed, capDue, inNumber,
                   isActive, chordDetector, cdObs, matchOp, brailleTracker, extVars>>

NextHost ==
    \/ \E dots \in HostChords : HandleChord(dots)
    \/ ToggleMode
    \/ EditorChange

SpecHost == Init /\ [][NextHost]_vars

\* ------------------------------------------------ the driver on the event loop
\* handleChord is async and its caller does not await it (extension.ts:74-76):
\* a call runs until it awaits an edit of the host (editor.edit in
\* EditorOutput.insert), and the event loop then runs other callbacks, a
\* further handleChord among them, until the edit completes. A suspended call
\* is the list of what it still has to do: the continuation of the awaited
\* insert first. The host completes edits in the order they were requested.
\* With the dots in use no cell is a prefix of an indicator, so every await a
\* call stops at is an edit or its last.
Item(op, cell, entry) == [op |-> op, cell |-> cell, entry |-> entry]

Items(op, cells) == [i \in 1..Len(cells) |-> Item(op, cells[i], NoEntry)]

\* processCharacter up to `await editorOutput.insert(...)`.
processCharacter_issue(w, dotsKey) ==
    [processCharacter(w, dotsKey) EXCEPT !.sm = consumeModifier(w.sm),
                                        !.tracker = w.tracker]

\* emitMultiCellMatch up to `await editorOutput.insert(...)`.
emitMultiCellMatch_issue(w, entry) ==
    [emitMultiCellMatch(w, entry) EXCEPT !.sm = consumeModifier(w.sm),
                                        !.tracker = w.tracker,
                                        !.isNumericMode = w.isNumericMode]

\* handleChord up to its first loop or emission: what the call has to do.
handleChord_begin(w, dots) ==
    IF 0 \in dots
    THEN [w |-> [w EXCEPT !.mc = MultiCellMatcher_flushPending(w.mc)],
          todo |-> Items("fallback", w.mc.pendingCells)
                   \o <<Item("indFlush", <<>>, NoEntry), Item("space", <<>>, NoEntry)>>]
    ELSE LET dotsKey == dotsToKey(dots)
             mode == getMode(w.sm)
             m == MultiCellMatcher_tryMatch(w.mc, dotsKey, mode)
             w1 == Record([w EXCEPT !.mc = m.mc],
                          Event("mcOffer", dotsKey, m.result.type, <<>>, <<>>, 0, NULL,
                                FALSE, FALSE))
         IN [w |-> w1,
             todo |-> IF m.result.type = "matched"
                      THEN <<Item("multi", dotsKey, m.result.entry)>>
                      ELSE IF m.result.type = "matched_with_leftover"
                      THEN <<Item("multi", dotsKey, m.result.entry)>>
                           \o Items("fallback", m.result.leftoverCells)
                      ELSE IF m.result.type = "pending"
                      THEN <<>>
                      ELSE Items("fallback", m.result.bufferedCells)]

\* A call run until it awaits an edit or returns: the driver's state and what
\* is left to do, empty when the call has returned.
RECURSIVE Run(_, _)
Run(w, todo) ==
    IF Len(todo) = 0 THEN [w |-> w, todo |-> <<>>]
    ELSE LET item == todo[1]
             rest == Tail(todo)
         IN CASE item.op = "fallback" ->
                   LET m == IndicatorMatcher_tryMatch(w.im, item.cell)
                       w1 == Record([w EXCEPT !.im = m.im],
                                    [Event("indOffer", item.cell, m.result.type, <<>>, <<>>,
                                           0, NULL, FALSE, FALSE)
                                        EXCEPT !.cells =
                                           IF m.result.type = "matched_with_leftover"
                                           THEN m.result.leftoverCells
                                           ELSE IF m.result.type = "none"
                                           THEN m.result.bufferedCells
                                           ELSE <<>>])
                   IN IF m.result.type = "matched"
                      THEN Run(ApplyIndicator(w1, m.result.indicator), rest)
                      ELSE IF m.result.type = "matched_with_leftover"
                      THEN Run(ApplyIndicator(w1, m.result.indicator),
                               Items("char", m.result.leftoverCells) \o rest)
                      ELSE IF m.result.type = "pending"
                      THEN Run(w1, rest)
                      ELSE Run(w1, Items("char", m.result.bufferedCells) \o rest)
              [] item.op = "indFlush" ->
                   LET indPending == w.im.pendingCells
                   IN Run(Record([w EXCEPT !.im = IndicatorMatcher_flushPending(w.im)],
                                 [Event("indFlush", Join(indPending), NULL, <<>>, <<>>,
                                        Len(indPending), NULL, FALSE, FALSE)
                                     EXCEPT !.cells = indPending]),
                          Items("char", indPending) \o rest)
              [] item.op = "char" ->
                   [w |-> processCharacter_issue(w, item.cell),
                    todo |-> <<Item("charDone", item.cell, NoEntry)>> \o rest]
              [] item.op = "multi" ->
                   [w |-> emitMultiCellMatch_issue(w, item.entry),
                    todo |-> <<Item("multiDone", item.entry.dotsKey, NoEntry)>> \o rest]
              [] item.op = "space" ->
                   [w |-> Record(w, Event("space", <<>>, NULL, <<" ">>, <<" ">>, 0, NULL,
                                          FALSE, FALSE)),
                    todo |-> <<Item("spaceDone", <<>>, NoEntry)>> \o rest]
              [] item.op = "charDone" ->
                   Run([w EXCEPT !.tracker = BrailleTracker_record(@, item.cell),
                                 !.sm = onCharacterEmitted(@)],
                       rest)
              [] item.op = "multiDone" ->
                   Run([w EXCEPT !.tracker = BrailleTracker_record(@, item.cell),
                                 !.sm = onCharacterEmitted(@),
                                 !.isNumericMode = FALSE],
                       rest)
              [] item.op = "spaceDone" ->
                   Run([w EXCEPT !.tracker = BrailleTracker_recordSpace(@),
                                 !.sm = onSpace(@),
                                 !.isNumericMode = FALSE],
                       rest)

\* The dots pressed: the space and two dots, which make up the chords 1, 5 and 15.
AsyncDots == {0, 1, 5}

MaxAsyncPresses == 3

\* The chord detector's callback: handleChord(dots) called and not awaited.
\* `st` is the driver's state, the suspended calls and the observation.
Deliver(st, dots) ==
    LET begun == handleChord_begin(st.w, dots)
        r == Run(begun.w, begun.todo)
        n == st.obs.calls + 1
    IN [w |-> r.w,
        tasks |-> IF Len(r.todo) > 0
                  THEN Append(st.tasks, [seq |-> n, todo |-> r.todo])
                  ELSE st.tasks,
        obs |-> [st.obs EXCEPT !.calls = n,
                               !.overlap = @ \/ Len(st.tasks) > 0,
                               !.lastIssued = IF Len(r.todo) > 0 THEN n ELSE @]]

RECURSIVE DeliverAll(_, _)
DeliverAll(st, chords) ==
    IF Len(chords) = 0 THEN st
    ELSE DeliverAll(Deliver(st, chords[1]), Tail(chords))

\* The driver's variables after the callbacks of one event-loop turn.
Commit(st) ==
    /\ stateMachine' = st.w.sm
    /\ indicatorMatcher' = st.w.im
    /\ multiCellMatcher' = st.w.mc
    /\ isNumericMode' = st.w.isNumericMode
    /\ kanaBracketOpen' = st.w.kanaBracketOpen
    /\ brailleTracker' = st.w.tracker
    /\ log' = st.w.log
    /\ inFlight' = st.tasks
    /\ UNCHANGED <<smOp, smPre, symEnter, wordEnter, roundTrip, dotMapper, chord, drvPre,
                   numericArmed, capDue, inNumber, isActive, cdObs, matchOp, allProfiles,
                   lineData, trackerObs,
                   unifiedData, hasEditor>>

\* The braille.dotInput command: ignored while inactive, else press(dot),
\* whose callbacks run before it returns.
DotInput(dot) ==
    IF ~isActive
    THEN UNCHANGED vars
    ELSE /\ asyncObs.presses < MaxAsyncPresses
         /\ \E cd \in {ChordDetector_press(chordDetector, dot)} :
               \E st \in {DeliverAll([w |-> World, tasks |-> inFlight, obs |-> asyncObs],
                                     cd.emitted)} :
                  /\ chordDetector' = [cd EXCEPT !.emitted = <<>>]
                  /\ asyncObs' = [st.obs EXCEPT !.presses = @ + 1]
                  /\ Commit(st)

\* The chord timer expires: the pending chord is delivered.
ChordTimeout ==
    /\ chordDetector.timer # 0
    /\ \E cd \in {ChordDetector_onTimeout(chordDetector)} :
          \E st \in {DeliverAll([w |-> World, tasks |-> inFlight, obs |-> asyncObs],
                                cd.emitted)} :
             /\ chordDetector' = [cd EXCEPT !.emitted = <<>>]
             /\ asyncObs' = st.obs
             /\ Commit(st)

\* The oldest requested edit completes: the call that awaits it goes on, to
\* its next edit or to its end.
EditDone ==
    /\ Len(inFlight) > 0
    /\ \E r \in {Run(World, inFlight[1].todo)} :
          /\ chordDetector' = chordDetector
          /\ asyncObs' = [asyncObs EXCEPT
                             !.outOfOrder = @ \/ (/\ Len(r.todo) > 0
                                                  /\ inFlight[1].seq < asyncObs.lastIssued),
                             !.lastIssued = IF Len(r.todo) > 0 /\ inFlight[1].seq > @
                                            THEN inFlight[1].seq ELSE @]
          /\ Commit([w |-> r.w,
                     tasks |-> IF Len(r.todo) > 0
                               THEN Append(Tail(inFlight),
                                           [seq |-> inFlight[1].seq, todo |-> r.todo])
                               ELSE Tail(inFlight)])

NextAsync ==
    \/ \E dot \in AsyncDots : DotInput(dot)
    \/ ChordTimeout
    \/ EditDone
    \/ ToggleMode

SpecAsync == Init /\ [][NextAsync]_vars

\* ------------------------------------------------ the unifier on its own
\* The raw entries of a UEB profile: four contenders for the cell 236 (a
\* punctuation mark, an opening and a closing quote, a wordsign), an opening
\* entry without print, a digit, a two-cell entry with print and four
\* indicators, one of them without print and one with.
UebRawEntries ==
    { RawEntry("ueb_question", <<K(<<2, 3, 6>>)>>, <<"?">>, "punctuation", "punctuation",
               "general", {}),
      RawEntry("ueb_left_quote", <<K(<<6, 3, 2>>)>>, <<"u201C">>, "open", "punctuation",
               "quotation", {}),
      RawEntry("ueb_right_quote", <<K(<<2, 3, 6>>)>>, <<"u201D">>, "close", "punctuation",
               "quotation", {}),
      RawEntry("ueb_his", <<K(<<2, 3, 6>>)>>, <<"h", "i", "s">>, "wordsigns", "contraction",
               "wordsign", {}),
      RawEntry("ueb_open_no_print", <<K(<<2, 3, 6>>)>>, <<>>, "open", "punctuation",
               "quotation", {}),
      RawEntry("ueb_one", <<K(<<1>>)>>, <<"1">>, "numbers", "number", "digit", {}),
      RawEntry("ueb_a", <<K(<<1>>)>>, <<"a">>, "letter", "letter", "alphabet", {}),
      RawEntry("ueb_inner_quote", <<K(<<6>>), K(<<6, 3, 2>>)>>, <<"u2018">>, "open",
               "punctuation", "quotation", {}),
      RawEntry("kana_indicator", <<K(<<1, 6>>), K(<<1, 3>>)>>, <<>>, "indicator",
               "indicator", "kana", {"kana", "passage"}),
      RawEntry("special_indicator", <<K(<<4, 5, 6>>)>>, <<"x">>, "special", "indicator",
               "nemeth", {"nemeth"}),
      RawEntry("grade1_nemeth", <<K(<<5, 6>>)>>, <<>>, "indicator", "indicator", "mode",
               {"grade1", "nemeth", "word"}),
      RawEntry("capital_terminator", <<K(<<6>>), K(<<3>>)>>, <<>>, "indicator",
               "indicator", "capital", {}) }

\* The raw entries of a kana profile: one more contender for the cell 236.
KanaRawEntries ==
    { RawEntry("kana_bracket", <<K(<<2, 3, 6>>)>>, <<"u300C">>, "open", "punctuation",
               "bracket", {}) }

ProfileHeader(system_id, braille_type) ==
    [system_id |-> system_id, braille_type |-> braille_type]

UebHeader == ProfileHeader("ueb", <<"grade1", "and", "grade2">>)

KanaHeader == ProfileHeader("kana", <<"kana">>)

\* An entry together with the profile it stands in.
RawItems ==
    {[profile |-> UebHeader, entry |-> e] : e \in UebRawEntries}
    \cup {[profile |-> KanaHeader, entry |-> e] : e \in KanaRawEntries}

MaxRawEntries == 3

\* allProfiles is a Map keyed by system id: the profiles of one system are
\* visited together.
SystemsTogether(items) ==
    \A i, j, k \in 1..Len(items) :
       i < j /\ j < k /\ items[i].profile.system_id = items[k].profile.system_id
          => items[j].profile.system_id = items[i].profile.system_id

\* Consecutive entries of the same profile header make up one profile.
RECURSIVE GroupProfiles(_)
GroupProfiles(items) ==
    IF Len(items) = 0 THEN <<>>
    ELSE LET rest == GroupProfiles(Tail(items))
             first == items[1]
         IN IF Len(rest) > 0 /\ ProfileHeader(rest[1].system_id, rest[1].braille_type)
                                   = first.profile
            THEN <<[rest[1] EXCEPT !.entries = <<first.entry>> \o @]>> \o Tail(rest)
            ELSE <<[system_id |-> first.profile.system_id,
                    braille_type |-> first.profile.braille_type,
                    entries |-> <<first.entry>>]>> \o rest

\* The profile maps handed to buildUnifiedData: at most MaxRawEntries entries.
ProfileInputs ==
    UNION { { GroupProfiles(items) : items \in {s \in [1..n -> RawItems] : SystemsTogether(s)} } :
            n \in 0..MaxRawEntries }

\* loadAllProfiles() has returned; buildUnifiedData has not been called.
InitU ==
    /\ stateMachine = setModeChangeCallback(NewStateMachine("grade1"))
    /\ smOp = [name |-> "new", indicator |-> NoIndicator]
    /\ smPre = stateMachine
    /\ symEnter = NoSymEnter
    /\ wordEnter = NoWordEnter
    /\ roundTrip = NoRoundTrip
    /\ indicatorMatcher = NewIndicatorMatcher
    /\ multiCellMatcher = NewMultiCellMatcher
    /\ dotMapper = [singleCellMap |-> {}, numericMap |-> {}]
    /\ isNumericMode = FALSE
    /\ kanaBracketOpen = TRUE
    /\ chord = {}
    /\ log = <<>>
    /\ drvPre = NoDrvPre
    /\ numericArmed = FALSE
    /\ capDue = "none"
    /\ inNumber = FALSE
    /\ isActive = FALSE
    /\ matchOp = NoMatchOp
    /\ InitChordDetector
    /\ InitHost
    /\ InitEventLoop
    /\ allProfiles \in ProfileInputs
    /\ unifiedData = NoUnifiedData

\* activate(): unifiedData = buildUnifiedData(allProfiles), and the engine is
\* loaded with it (setIndicators, setEntries, setData).
BuildUnifiedData ==
    /\ ~unifiedData.built
    /\ unifiedData' = buildUnifiedData(allProfiles)
    /\ indicatorMatcher' = setIndicators(NewIndicatorMatcher, unifiedData'.indicators)
    /\ multiCellMatcher' = setEntries(NewMultiCellMatcher, unifiedData'.multiCellEntries)
    /\ dotMapper' = [singleCellMap |-> unifiedData'.singleCellMap,
                     numericMap |-> unifiedData'.numericMap]
    /\ UNCHANGED <<stateMachine, smOp, smPre, symEnter, wordEnter, roundTrip, isNumericMode,
                   kanaBracketOpen, chord, log, drvPre, numericArmed, capDue, inNumber,
                   isActive, chordDetector, cdObs, matchOp, allProfiles, lineData,
                   trackerObs, hasEditor,
                   brailleTracker, inFlight, asyncObs>>

NextU == BuildUnifiedData

SpecU == InitU /\ [][NextU]_vars


\* ------------------------------------------------ the tracker on its own
\* The lines, columns and dot keys recorded; column 2 leaves a gap on a short line.
BTLines == {0, 1}

BTCols == {0, 2}

BTKeys == {K(<<1>>), K(<<1, 2>>)}

\* The number of tracker calls in a run.
MaxTrackerCalls == 3

BTFrame == UNCHANGED <<stateMachine, smOp, smPre, symEnter, wordEnter, roundTrip,
                       indicatorMatcher, multiCellMatcher, dotMapper, isNumericMode,
                       kanaBracketOpen, chord, log, drvPre, numericArmed, capDue,
                       inNumber, isActive, chordDetector, cdObs, matchOp, allProfiles,
                       unifiedData, hasEditor, brailleTracker, inFlight, asyncObs>>

BTObserve(op, line, col, dotsKey) ==
    trackerObs' = [op |-> op, line |-> line, col |-> col, key |-> dotsKey, pre |-> lineData,
                   recorded |-> IF op = "clear" THEN {}
                                ELSE trackerObs.recorded \cup {line},
                   calls |-> trackerObs.calls + 1]

BTRecord(line, col, dotsKey) ==
    /\ trackerObs.calls < MaxTrackerCalls
    /\ lineData' = record(lineData, line, col, dotsKey)
    /\ BTObserve("record", line, col, dotsKey)
    /\ BTFrame

BTRecordSpace(line, col) ==
    /\ trackerObs.calls < MaxTrackerCalls
    /\ lineData' = recordSpace(lineData, line, col)
    /\ BTObserve("recordSpace", line, col, <<>>)
    /\ BTFrame

BTClear ==
    /\ trackerObs.calls < MaxTrackerCalls
    /\ lineData' = clear(lineData)
    /\ BTObserve("clear", 0, 0, <<>>)
    /\ BTFrame

NextBT ==
    \/ \E line \in BTLines, col \in BTCols, dotsKey \in BTKeys : BTRecord(line, col, dotsKey)
    \/ \E line \in BTLines, col \in BTCols : BTRecordSpace(line, col)
    \/ BTClear

SpecBT == Init /\ [][NextBT]_vars


\* ------------------------------------------------ the two matchers side by side
\* One matcher loaded with one of its lists, the other as its constructor
\* leaves it; the calls of both interleave.
InitMatchers ==
    /\ stateMachine = setModeChangeCallback(NewStateMachine("grade1"))
    /\ smOp = [name |-> "new", indicator |-> NoIndicator]
    /\ smPre = stateMachine
    /\ symEnter = NoSymEnter
    /\ wordEnter = NoWordEnter
    /\ roundTrip = NoRoundTrip
    /\ \/ /\ \E list \in IMLists :
                 indicatorMatcher = setIndicators(NewIndicatorMatcher, list)
          /\ multiCellMatcher = NewMultiCellMatcher
       \/ /\ indicatorMatcher = NewIndicatorMatcher
          /\ \E list \in MCLists :
                 multiCellMatcher = setEntries(NewMultiCellMatcher, list)
    /\ dotMapper = [singleCellMap |-> ProfileSingleCellMap, numericMap |-> ProfileNumericMap]
    /\ isNumericMode = FALSE
    /\ kanaBracketOpen = TRUE
    /\ chord = {}
    /\ log = <<>>
    /\ drvPre = NoDrvPre
    /\ numericArmed = FALSE
    /\ capDue = "none"
    /\ inNumber = FALSE
    /\ isActive = FALSE
    /\ matchOp = NoMatchOp
    /\ InitUnifier
    /\ InitHost
    /\ InitEventLoop
    /\ InitChordDetector

NextMatchers == NextIM \/ NextMC

SpecMatchers == InitMatchers /\ [][NextMatchers]_vars


\* ================================================================ properties
\* ---------------------------------------------------------------- Spec
\* What the last handleChord call did, by kind of event.
CellsOf(kind) ==
    LET s == SelectSeq(log, LAMBDA ev : ev.kind = kind)
    IN [i \in 1..Len(s) |-> s[i].cell]

Before(i) == SubSeq(log, 1, i - 1)

IsCellEmit(ev) == ev.kind = "emit" /\ ev.via # "multi"

IsCellChord == chord # {} /\ 0 \notin chord

IsSpaceChord == 0 \in chord

\* The value multiCellMatcher.tryMatch returned to the last handleChord call.
McResult ==
    MultiCellMatcher_tryMatch([multiCellMatcher EXCEPT !.pendingCells = drvPre.mcPending],
                              dotsToKey(chord), drvPre.sm.currentMode).result

Released ==
    IF McResult.type = "none" THEN McResult.bufferedCells
    ELSE IF McResult.type = "matched_with_leftover" THEN McResult.leftoverCells
    ELSE <<>>

\* The multi-cell matcher sees the chord's cell first and once; the indicator
\* matcher sees exactly the cells the multi-cell matcher released, in order.
OrderingLaw ==
    IsCellChord =>
        /\ Len(log) >= 1
        /\ log[1].kind = "mcOffer"
        /\ CellsOf("mcOffer") = <<dotsToKey(chord)>>
        /\ CellsOf("indOffer") = Released

\* The entries visible in `mode` whose first cell is a complete indicator.
IndicatorHeaded(mode) ==
    {i \in ModeEntries(multiCellMatcher, mode) :
        \E j \in 1..Len(indicatorMatcher.indicators) :
            indicatorMatcher.indicators[j].dotsKey = multiCellMatcher.entries[i].dots[1]}

\* Some visible entry's cells begin with `cells`.
ExtendsToEntry(cells, mode) ==
    \E i \in ModeEntries(multiCellMatcher, mode) :
        /\ Len(multiCellMatcher.entries[i].dots) >= Len(cells)
        /\ SubSeq(multiCellMatcher.entries[i].dots, 1, Len(cells)) = cells

\* The last call resolved the cells of E, entered from empty buffers: its
\* chord completed E and the matcher did not wait, or E was waiting in the
\* buffer and the chord was a space or a cell that continues no entry.
EntryResolved(E) ==
    /\ chord # {}
    /\ drvPre.imPending = <<>>
    /\ multiCellMatcher.pendingCells = <<>>
    /\ \/ /\ 0 \notin chord
          /\ Append(drvPre.mcPending, dotsToKey(chord)) = E.dots
       \/ /\ drvPre.mcPending = E.dots
          /\ \/ 0 \in chord
             \/ ~ExtendsToEntry(Append(drvPre.mcPending, dotsToKey(chord)),
                                drvPre.sm.currentMode)

EmitsEntry(E) ==
    \E i \in 1..Len(log) :
        /\ log[i].kind = "emit"
        /\ log[i].via = "multi"
        /\ log[i].print = E.print

AppliesIndicatorOf(cell) ==
    \E i \in 1..Len(log) : log[i].kind = "apply" /\ log[i].indicator.dotsKey = cell

\* C1: every non-space chord's cell goes to the multi-cell matcher first and
\* only the cells it releases reach the indicator matcher; and when the cells
\* of a visible entry whose first cell is a complete indicator have been
\* entered from empty buffers, the entry's print is emitted and the indicator
\* of its first cell is not applied.
C1_MultiCellBeforeIndicator ==
    /\ OrderingLaw
    /\ \A i \in IndicatorHeaded(drvPre.sm.currentMode) :
           LET E == multiCellMatcher.entries[i]
           IN EntryResolved(E) => EmitsEntry(E) /\ ~AppliesIndicatorOf(E.dots[1])

Resolves(cell) == lookupNumeric(dotMapper.numericMap, cell) # NoMapping

C3_SpaceEndsNumeric ==
    \A i \in 1..Len(log) :
        (log[i].kind = "emit" /\ log[i].via = "numeric") =>
            ArmedAfter(drvPre.numericArmed, Before(i))

\* C4 as stated: the first emission after a capital indicator is applied is
\* upper-cased, whatever was applied in between, and no other emission is.
C4_CapitalOneEmission ==
    \A i \in 1..Len(log) :
        log[i].kind = "emit" =>
            IF CapAfter(drvPre.capDue, Before(i)) \in {"due", "replaced"}
            THEN log[i].text = toUpperCase(log[i].print)
            ELSE log[i].text = log[i].print

\* C4: the first emission after a capital indicator is applied is the
\* upper-case of its print unless another modifier indicator was applied in
\* between; every other emission is its print unchanged.
C4_CapitalOneEmissionUnlessReplaced ==
    \A i \in 1..Len(log) :
        log[i].kind = "emit" =>
            IF CapAfter(drvPre.capDue, Before(i)) = "due"
            THEN log[i].text = toUpperCase(log[i].print)
            ELSE log[i].text = log[i].print

\* A multi-cell entry emitted in upper case under a capital indicator.
C4_Witness ==
    \E i \in 1..Len(log) :
        /\ log[i].kind = "emit"
        /\ log[i].via = "multi"
        /\ CapAfter(drvPre.capDue, Before(i)) = "due"
        /\ log[i].text # log[i].print

FlushIndex == CHOOSE i \in 1..Len(log) : log[i].kind = "indFlush"

Top(stack) == stack[Len(stack)]

Pop(stack) == SubSeq(stack, 1, Len(stack) - 1)

C7_WordScopeAutoReturn ==
    /\ ( /\ smOp.name = "onSpace"
         /\ wordEnter.stage = "due"
         /\ smPre.currentMode = wordEnter.to
         /\ Len(smPre.modeStack) = wordEnter.depth )
       => stateMachine.currentMode = wordEnter.from
    /\ (smOp.name = "onCharacterEmitted" /\ smPre.activeScope = "word")
       => SMCore(stateMachine) = SMCore(smPre)
    /\ (smOp.name = "onSpace" /\ smPre.activeScope = "passage")
       => SMCore(stateMachine) = SMCore(smPre)

\* C8: a mode-switch indicator processed in its enter form (the enter taking
\* effect) and then at once in its matching exit form leaves the machine with
\* the current mode, the active scope and the stack depth it had before the
\* enter.
C8_EnterExitRoundTrip ==
    (roundTrip.stage = "exited" /\ roundTrip.effective) =>
        /\ stateMachine.currentMode = roundTrip.currentMode
        /\ stateMachine.activeScope = roundTrip.activeScope
        /\ Len(stateMachine.modeStack) = roundTrip.depth

IsEnterCall == /\ smOp.name = "processIndicator"
               /\ smOp.indicator.indicatorType = "mode_switch"
               /\ smOp.indicator.action = "enter"

IsExitCall == /\ smOp.name = "processIndicator"
              /\ smOp.indicator.indicatorType = "mode_switch"
              /\ smOp.indicator.action = "exit"

\* C9: processIndicator with a mode-switch enter indicator returns false and
\* changes nothing exactly when the current mode is the target mode and the
\* active scope is the indicator's scope; otherwise it pushes the old mode,
\* sets mode and scope from the indicator, sets symbolCount to 0, calls the
\* registered mode-change callback once with (old, new, indicator), returns true.
C9_EnterMode ==
    IsEnterCall =>
        LET ind == smOp.indicator
            already == /\ smPre.currentMode = ind.targetMode
                       /\ smPre.activeScope = ind.scope
        IN /\ already => /\ stateMachine.ret = FALSE
                         /\ SMCore(stateMachine) = SMCore(smPre)
                         /\ stateMachine.cbLog = <<>>
           /\ ~already => /\ stateMachine.ret = TRUE
                          /\ stateMachine.modeStack =
                                 Append(smPre.modeStack, smPre.currentMode)
                          /\ stateMachine.currentMode = ind.targetMode
                          /\ stateMachine.activeScope = ind.scope
                          /\ stateMachine.symbolCount = 0
                          /\ stateMachine.pendingModifier = smPre.pendingModifier
                          /\ stateMachine.cbLog =
                                 << [oldMode |-> smPre.currentMode,
                                     newMode |-> ind.targetMode,
                                     indicator |-> ind] >>

\* C9 witness: an effective enter into the mode the machine is already in (the
\* scope differs), made on a non-empty stack.
C9_Witness ==
    /\ IsEnterCall
    /\ smPre.currentMode = smOp.indicator.targetMode
    /\ smPre.activeScope # smOp.indicator.scope
    /\ Len(smPre.modeStack) > 0
    /\ stateMachine.ret = TRUE

\* C10: a mode-switch exit at grade1 with an empty stack returns false, changes
\* no field and calls no callback; in every other state it pops one level (or
\* restores grade1 when the stack is empty), clears scope and symbolCount.
C10_ExitMode ==
    IsExitCall =>
        LET atBase == smPre.currentMode = "grade1" /\ Len(smPre.modeStack) = 0
        IN /\ atBase => /\ stateMachine.ret = FALSE
                        /\ SMCore(stateMachine) = SMCore(smPre)
                        /\ stateMachine.cbLog = <<>>
           /\ ~atBase => /\ stateMachine.currentMode =
                                IF Len(smPre.modeStack) > 0
                                THEN Top(smPre.modeStack) ELSE "grade1"
                         /\ stateMachine.modeStack =
                                IF Len(smPre.modeStack) > 0
                                THEN Pop(smPre.modeStack) ELSE <<>>
                         /\ stateMachine.activeScope = NULL
                         /\ stateMachine.symbolCount = 0
                         /\ stateMachine.pendingModifier = smPre.pendingModifier

\* C10 witness: an exit at grade1 on a non-empty stack (not the base state)
\* that popped a level.
C10_Witness ==
    /\ IsExitCall
    /\ smPre.currentMode = "grade1"
    /\ Len(smPre.modeStack) = 2
    /\ Len(stateMachine.modeStack) = 1
    /\ stateMachine.currentMode # "grade1"

\* ------------------------------------------------ modifier indicators, reset
IsModifierCall == /\ smOp.name = "processIndicator"
                  /\ smOp.indicator.indicatorType = "modifier"

\* C11: processIndicator on a modifier indicator leaves currentMode, modeStack,
\* activeScope and symbolCount unchanged and calls no mode-change callback; an
\* enter indicator sets pendingModifier to the indicator's modifier, an exit
\* indicator sets it to none; the call returns true in both cases.
C11_ModifierIndicator ==
    IsModifierCall =>
        /\ stateMachine.currentMode = smPre.currentMode
        /\ stateMachine.modeStack = smPre.modeStack
        /\ stateMachine.activeScope = smPre.activeScope
        /\ stateMachine.symbolCount = smPre.symbolCount
        /\ stateMachine.cbLog = <<>>
        /\ stateMachine.ret = TRUE
        /\ stateMachine.pendingModifier =
               IF smOp.indicator.action = "enter"
               THEN smOp.indicator.modifier ELSE NULL

\* C11 witness: an exit modifier indicator processed while a modifier is
\* pending, in a mode entered under a scope on a non-empty stack.
C11_Witness ==
    /\ IsModifierCall
    /\ smOp.indicator.action = "exit"
    /\ smOp.indicator.modifier # NULL
    /\ smPre.pendingModifier # NULL
    /\ smPre.currentMode # "grade1"
    /\ smPre.activeScope # NULL
    /\ Len(smPre.modeStack) > 0

\* C12: reset() called in any reachable state leaves currentMode grade1, an
\* empty mode stack, no active scope, symbolCount 0 and no pending modifier.
C12_Reset ==
    smOp.name = "reset" =>
        SMCore(stateMachine) =
            [currentMode |-> "grade1", modeStack |-> <<>>, activeScope |-> NULL,
             symbolCount |-> 0, pendingModifier |-> NULL]

\* C12 witness: reset called with a modifier pending, in a scoped mode that is
\* not grade1, on a non-empty stack.
C12_Witness ==
    /\ smOp.name = "reset"
    /\ smPre.pendingModifier # NULL
    /\ smPre.currentMode # "grade1"
    /\ smPre.activeScope # NULL
    /\ Len(smPre.modeStack) > 0
    /\ stateMachine.currentMode = "grade1"

\* ------------------------------------------------ SpecCD: the chord detector
\* The callbacks made by the last chord-detector call, in order.
Delivered ==
    SubSeq(chordDetector.emitted, Len(cdObs.pre.emitted) + 1, Len(chordDetector.emitted))

\* No call removes or reorders a callback already made.
CallbacksKept ==
    /\ Len(cdObs.pre.emitted) <= Len(chordDetector.emitted)
    /\ SubSeq(chordDetector.emitted, 1, Len(cdObs.pre.emitted)) = cdObs.pre.emitted

Disarmed == chordDetector.pendingDots = {} /\ chordDetector.timer = 0

\* C13: press(0) with a non-empty pending chord delivers the pending dot set
\* and then a separate {0}, clearing the pending set and disarming the timer;
\* with an empty pending chord it delivers only {0}. No callback carries dot 0
\* together with another dot, and every call appends its callbacks after the
\* ones delivered before it (chords are delivered in the order they close).
C13_SpacePress ==
    /\ CallbacksKept
    /\ \A i \in DOMAIN chordDetector.emitted :
           0 \in chordDetector.emitted[i] => chordDetector.emitted[i] = {0}
    /\ (cdObs.op = "press" /\ cdObs.dot = 0) =>
           /\ Delivered = IF cdObs.pre.pendingDots # {}
                          THEN << cdObs.pre.pendingDots, {0} >>
                          ELSE << {0} >>
           /\ Disarmed

\* C13 witness: a space pressed while a chord of two dots is pending.
C13_Witness ==
    /\ cdObs.op = "press"
    /\ cdObs.dot = 0
    /\ Cardinality(cdObs.pre.pendingDots) = 2
    /\ cdObs.pre.timer # 0
    /\ Len(Delivered) = 2

\* What C14 requires of each call: a press of a dot in 1..6 adds the dot to the
\* pending set (a repeated dot changes nothing), arms the timer and delivers
\* nothing; the expiry delivers, in one callback, the dots pressed since the
\* previous delivery or cancel and empties the pending set; the pending set is
\* always the set of dots pressed and not yet delivered or cancelled; no
\* callback carries an empty set.
C14_Step ==
    /\ (cdObs.op = "press" /\ cdObs.dot # 0) =>
           /\ chordDetector.pendingDots = cdObs.pre.pendingDots \cup {cdObs.dot}
           /\ chordDetector.timer = cdObs.pre.timeout
           /\ chordDetector.timer # 0
           /\ Delivered = <<>>
    /\ cdObs.op = "timeout" =>
           /\ Delivered = << cdObs.prePressed >>
           /\ Disarmed
    /\ chordDetector.pendingDots = cdObs.pressed
    /\ \A i \in DOMAIN chordDetector.emitted : chordDetector.emitted[i] # {}

\* C14: trailing-edge aggregation. Every call behaves as C14_Step says, and
\* when the timer is allowed to expire every pending dot is eventually
\* delivered or cancelled.
C14_TrailingEdge ==
    /\ []C14_Step
    /\ (chordDetector.pendingDots # {}) ~> (chordDetector.pendingDots = {})

\* C14 witness: the timer expired on a chord of two dots built by three presses
\* (one dot pressed twice), nothing having been delivered before.
C14_Witness ==
    /\ cdObs.op = "timeout"
    /\ cdObs.presses = 3
    /\ cdObs.pre.emitted = <<>>
    /\ Cardinality(cdObs.prePressed) = 2
    /\ Delivered = << cdObs.prePressed >>

\* C15: cancel() delivers nothing, empties the pending set and disarms the
\* timer; flush() with a non-empty pending set delivers it in exactly one
\* callback and disarms the timer, with an empty pending set it delivers
\* nothing; a disarmed timer never coexists with pending dots, so neither the
\* cancelled nor the flushed dots are delivered by a later expiry: every
\* callback made for dots carries only dots pressed since the previous delivery
\* or cancel.
C15_EarlyClose ==
    /\ cdObs.op = "cancel" => Delivered = <<>> /\ Disarmed
    /\ cdObs.op = "flush" =>
           /\ Delivered = IF cdObs.pre.pendingDots # {}
                          THEN << cdObs.pre.pendingDots >> ELSE <<>>
           /\ Disarmed
    /\ (chordDetector.timer # 0) = (chordDetector.pendingDots # {})
    /\ \A i \in DOMAIN Delivered :
           Delivered[i] # {0} => Delivered[i] = cdObs.prePressed

\* C15 witness: a flush of a pending one-dot chord with the timer armed, made
\* after at least two presses, whose callback is the only one ever made.
C15_Witness ==
    /\ cdObs.op = "flush"
    /\ cdObs.pre.pendingDots # {}
    /\ cdObs.pre.timer # 0
    /\ cdObs.presses >= 2
    /\ Cardinality(cdObs.pre.pendingDots) = 1
    /\ chordDetector.emitted = << cdObs.pre.pendingDots >>

\* ------------------------------------------------ SpecIM: the indicator matcher
IsTryMatch == matchOp.name = "tryMatch"

\* The buffer of the last tryMatch call after its push.
Pushed == Append(matchOp.pre.pendingCells, matchOp.key)

\* Cell sequence `a` is a proper cell-prefix of cell sequence `b`.
ProperCellPrefix(a, b) == Len(a) < Len(b) /\ SubSeq(b, 1, Len(a)) = a

\* Indicator i of the list is a proper cell-prefix of another indicator.
HasExtension(list, i) ==
    \E j \in 1..Len(list) : ProperCellPrefix(list[i].dots, list[j].dots)

Reports(ind) ==
    /\ matchOp.result.type \in {"matched", "matched_with_leftover"}
    /\ matchOp.result.indicator = ind

\* The first two parts of C16: the call that completes an indicator S with an
\* extension returns pending; S is reported only as matched_with_leftover with
\* the last cell as leftover, by a later call whose buffer is neither an
\* indicator nor a proper cell-prefix of one.
C16_ShortDeferred ==
    IsTryMatch =>
        LET list == matchOp.pre.indicators
        IN \A s \in 1..Len(list) :
              HasExtension(list, s) =>
                 /\ Pushed = list[s].dots => matchOp.result.type = "pending"
                 /\ Reports(list[s]) =>
                       /\ matchOp.result.type = "matched_with_leftover"
                       /\ matchOp.result.leftoverCells = << matchOp.key >>
                       /\ ProperCellPrefix(list[s].dots, Pushed)
                       /\ \A j \in 1..Len(list) :
                              /\ list[j].dots # Pushed
                              /\ ~ProperCellPrefix(Pushed, list[j].dots)

\* C16 as stated: with S a proper cell-prefix of another indicator T, the call
\* that completes S returns pending, S is reported only as
\* matched_with_leftover(S, [last cell]) by a later call whose buffer is neither
\* an indicator nor a prefix of one, and the call whose cell completes T
\* returns matched with T's key, leaving nothing deferred.
C16_TieBreak ==
    /\ C16_ShortDeferred
    /\ IsTryMatch =>
          LET list == matchOp.pre.indicators
          IN \A s, t \in 1..Len(list) :
                (ProperCellPrefix(list[s].dots, list[t].dots) /\ Pushed = list[t].dots) =>
                    /\ matchOp.result.type = "matched"
                    /\ matchOp.result.indicator.dots = list[t].dots
                    /\ indicatorMatcher.deferredMatch = NoIndicator

\* C16 amended: as stated, except that a longer indicator T which is itself a
\* proper cell-prefix of a yet longer indicator is not returned as matched by
\* the call that completes it: that call returns pending and T replaces S as
\* the deferred match. In both cases S is not reported and is no longer held.
C16_TieBreakChained ==
    /\ C16_ShortDeferred
    /\ IsTryMatch =>
          LET list == matchOp.pre.indicators
          IN \A s, t \in 1..Len(list) :
                (ProperCellPrefix(list[s].dots, list[t].dots) /\ Pushed = list[t].dots) =>
                    /\ ~Reports(list[s])
                    /\ indicatorMatcher.deferredMatch # list[s]
                    /\ IF HasExtension(list, t)
                       THEN /\ matchOp.result.type = "pending"
                            /\ indicatorMatcher.deferredMatch.dots = list[t].dots
                       ELSE /\ matchOp.result.type = "matched"
                            /\ matchOp.result.indicator.dots = list[t].dots
                            /\ indicatorMatcher.deferredMatch = NoIndicator

\* C16 witness: a list holding a one-cell, a two-cell and a three-cell
\* indicator, each extending the one before; the call that completes the
\* two-cell one, made while the one-cell one is deferred, returned pending.
C16_Witness ==
    /\ IsTryMatch
    /\ Len(Pushed) = 2
    /\ matchOp.pre.deferredMatch # NoIndicator
    /\ matchOp.pre.deferredMatch.dots = << Pushed[1] >>
    /\ \E t \in 1..Len(matchOp.pre.indicators) :
           /\ matchOp.pre.indicators[t].dots = Pushed
           /\ HasExtension(matchOp.pre.indicators, t)
    /\ matchOp.result.type = "pending"

\* C17: tryMatch(k) pushes k and, with P the buffer joined by "|", E the
\* indicator whose dotsKey is P and L true when an indicator's dotsKey starts
\* with P followed by "|", returns the first applicable of: E and not L,
\* matched(E) with buffer and deferred cleared; E and L, pending with deferred
\* set to E and the buffer kept; no E, L and fewer than maxCells cells, pending
\* with the buffer kept; no E and a deferred match, matched_with_leftover of it
\* with the last pushed cell, buffer and deferred cleared; otherwise none with
\* the whole buffer in push order, buffer cleared.
C17_PerCallOutcome ==
    IsTryMatch =>
        LET pre == matchOp.pre
            list == pre.indicators
            P == Join(Pushed)
            Es == {i \in 1..Len(list) : list[i].dotsKey = P}
            E == list[CHOOSE i \in Es : \A j \in Es : i <= j]
            L == \E i \in 1..Len(list) : StartsWith(list[i].dotsKey, P \o <<"|">>)
            r == matchOp.result
            post == indicatorMatcher
        IN /\ post.indicators = list
           /\ post.maxCells = pre.maxCells
           /\ IF Es # {} /\ ~L
              THEN /\ r = IndicatorMatchResult("matched", E, <<>>, <<>>)
                   /\ post.pendingCells = <<>>
                   /\ post.deferredMatch = NoIndicator
              ELSE IF Es # {} /\ L
              THEN /\ r.type = "pending"
                   /\ post.pendingCells = Pushed
                   /\ post.deferredMatch = E
              ELSE IF L /\ Len(Pushed) < pre.maxCells
              THEN /\ r.type = "pending"
                   /\ post.pendingCells = Pushed
                   /\ post.deferredMatch = pre.deferredMatch
              ELSE IF pre.deferredMatch # NoIndicator
              THEN /\ r = IndicatorMatchResult("matched_with_leftover", pre.deferredMatch,
                                               << matchOp.key >>, <<>>)
                   /\ post.pendingCells = <<>>
                   /\ post.deferredMatch = NoIndicator
              ELSE /\ r = IndicatorMatchResult("none", NoIndicator, <<>>, Pushed)
                   /\ post.pendingCells = <<>>
                   /\ post.deferredMatch = NoIndicator

\* C17 witness: the fourth case on a buffer of three cells: a deferred one-cell
\* indicator committed with the third cell as leftover, the buffer having been
\* kept by the third case in between.
C17_Witness ==
    /\ IsTryMatch
    /\ Len(Pushed) = 3
    /\ Len(matchOp.pre.deferredMatch.dots) = 1
    /\ matchOp.result.type = "matched_with_leftover"
    /\ matchOp.result.leftoverCells = << Pushed[3] >>
    /\ indicatorMatcher.pendingCells = <<>>

\* ------------------------------------------------ SpecMC: the multi-cell matcher
IsMcTryMatch == matchOp.name = "mcTryMatch"

\* An entry the call made with `mode` considers.
Visible(entry, mode) == entry.mode = mode \/ entry.mode = "grade1"

\* The indices of the entries of the last call's list that the call considers.
VisibleEntries ==
    {i \in 1..Len(matchOp.pre.entries) : Visible(matchOp.pre.entries[i], matchOp.mode)}

\* The first visible entry whose cells are `cells` (index 0 when there is none).
FirstVisible(cells) ==
    LET hits == {i \in VisibleEntries : matchOp.pre.entries[i].dots = cells}
    IN IF hits = {} THEN 0 ELSE CHOOSE i \in hits : \A j \in hits : i <= j

\* A visible entry is longer than the pushed buffer and starts with it.
VisibleLonger ==
    \E i \in VisibleEntries : ProperCellPrefix(Pushed, matchOp.pre.entries[i].dots)

\* C18: in a tryMatch(k, mode) call an entry whose mode is neither the given
\* mode nor grade1 is never returned and changes no outcome (the result is the
\* one the matcher gives when loaded with the visible entries only, so such an
\* entry causes no pending outcome either); a grade1 entry is matchable under
\* every mode: when the buffer equals its cells the call returns pending or a
\* match with those cells.
C18_ModeFilter ==
    IsMcTryMatch =>
        LET pre == matchOp.pre
            r == matchOp.result
            visibleOnly == SelectSeq(pre.entries, LAMBDA e : Visible(e, matchOp.mode))
        IN /\ r.type \in {"matched", "matched_with_leftover"} =>
                  /\ Visible(r.entry, matchOp.mode)
                  /\ \E i \in 1..Len(pre.entries) : pre.entries[i] = r.entry
           /\ r = MultiCellMatcher_tryMatch(setEntries(pre, visibleOnly), matchOp.key,
                                            matchOp.mode).result
           /\ \A i \in 1..Len(pre.entries) :
                 (pre.entries[i].mode = "grade1" /\ pre.entries[i].dots = Pushed) =>
                     \/ r.type = "pending"
                     \/ r.type = "matched" /\ r.entry.dots = Pushed

\* C18 witness: a call made with grade1 whose buffer equals the cells of a kana
\* entry and of no visible entry: it returned none.
C18_Witness ==
    /\ IsMcTryMatch
    /\ matchOp.mode = "grade1"
    /\ Len(Pushed) > 1
    /\ \E i \in 1..Len(matchOp.pre.entries) :
           /\ matchOp.pre.entries[i].mode = "kana"
           /\ matchOp.pre.entries[i].dots = Pushed
    /\ FirstVisible(Pushed) = 0
    /\ matchOp.result.type = "none"

C20_Recovery ==
    (IsMcTryMatch /\ FirstVisible(Pushed) = 0 /\ ~VisibleLonger) =>
        /\ multiCellMatcher.pendingCells = <<>>
        /\ IF FirstVisible(matchOp.pre.pendingCells) # 0
           THEN matchOp.result =
                    MultiCellMatchResult(
                        "matched_with_leftover",
                        matchOp.pre.entries[FirstVisible(matchOp.pre.pendingCells)],
                        << matchOp.key >>, <<>>)
           ELSE matchOp.result = MultiCellMatchResult("none", NoEntry, <<>>, Pushed)

\* C20 witness: a fourth cell that fits no entry, pushed on a three-cell buffer
\* that is a visible entry: that entry was returned with the fourth cell left over.
C20_Witness ==
    /\ IsMcTryMatch
    /\ Len(Pushed) = 4
    /\ FirstVisible(Pushed) = 0
    /\ ~VisibleLonger
    /\ FirstVisible(matchOp.pre.pendingCells) # 0
    /\ matchOp.result.type = "matched_with_leftover"
    /\ matchOp.result.leftoverCells = << Pushed[4] >>

\* ---------------------------------------------------------------- SpecU
\* The raw entries in the order buildUnifiedData visits them, each with the
\* modes of its profile.
RECURSIVE RawSequence(_)
RawSequence(profiles) ==
    IF Len(profiles) = 0 THEN <<>>
    ELSE [i \in 1..Len(profiles[1].entries) |->
             [modes |-> systemIdToModes(profiles[1].system_id, profiles[1].braille_type),
              entry |-> profiles[1].entries[i]]]
         \o RawSequence(Tail(profiles))

Raw == RawSequence(allProfiles)

IsIndicatorEntry(entry) == entry.role = "indicator" \/ entry.category = "indicator"

InModes(mode, modes) == \E i \in 1..Len(modes) : modes[i] = mode

\* The positions of the entries that contribute to the single-cell mapping of
\* `key` in `mode`: not an indicator, one cell, a print, that key, that mode.
Contributed(key, mode) ==
    {i \in 1..Len(Raw) :
        /\ ~IsIndicatorEntry(Raw[i].entry)
        /\ Len(Raw[i].entry.dots) = 1
        /\ Raw[i].entry.print # <<>>
        /\ UnifiedTable_dotsToKey(Raw[i].entry.dots) = key
        /\ InModes(mode, Raw[i].modes)}

PairedContenders(key, mode) == {i \in Contributed(key, mode) : IsPaired(Raw[i].entry.role)}

First(S) == CHOOSE i \in S : \A j \in S : i <= j

\* The single-cell keys of the raw entries.
RawKeys == {UnifiedTable_dotsToKey(Raw[i].entry.dots) : i \in 1..Len(Raw)}

MappingsOf(key, mode) == {r \in unifiedData.singleCellMap : r.dots = key /\ r.mode = mode}

\* C21: for a dot key and a mode with a contributed open/close entry, the final
\* mapping is the first open/close entry in processing order; with no
\* open/close contender the mapping is one of the contributed entries and not
\* an open/close one. There is one mapping per contested key and mode.
C21_PairedOverPlain ==
    unifiedData.built =>
       \A key \in RawKeys, mode \in Modes :
          Contributed(key, mode) # {} =>
             /\ Cardinality(MappingsOf(key, mode)) = 1
             /\ \A r \in MappingsOf(key, mode) :
                   IF PairedContenders(key, mode) # {}
                   THEN r = DotMapping(key, mode,
                                       Raw[First(PairedContenders(key, mode))].entry)
                   ELSE /\ ~IsPaired(r.role)
                        /\ \E i \in Contributed(key, mode) :
                              r = DotMapping(key, mode, Raw[i].entry)

\* A plain entry, then a closing and an opening entry for the same key and
\* mode: the mapping is the closing entry, the first of the two.
C21_Witness ==
    /\ unifiedData.built
    /\ \E key \in RawKeys, mode \in Modes :
          /\ Cardinality(Contributed(key, mode)) = 3
          /\ Cardinality(PairedContenders(key, mode)) = 2
          /\ First(Contributed(key, mode)) \notin PairedContenders(key, mode)
          /\ \E i, j \in PairedContenders(key, mode) :
                /\ i < j
                /\ Raw[i].entry.role = "close"
                /\ Raw[j].entry.role = "open"
                /\ MappingsOf(key, mode) = {DotMapping(key, mode, Raw[i].entry)}

ContractionRoles == {"groupsigns", "wordsigns", "contraction"}

\* C22: for a dot key and a mode contested by a punctuation entry and a
\* contraction-like entry, with no open/close contender, the final mapping is
\* the punctuation entry, whichever of the two is processed first.
C22_PunctuationOverContraction ==
    unifiedData.built =>
       \A key \in RawKeys, mode \in Modes :
          (/\ PairedContenders(key, mode) = {}
           /\ \E i \in Contributed(key, mode) : Raw[i].entry.role = "punctuation"
           /\ \E i \in Contributed(key, mode) : Raw[i].entry.role \in ContractionRoles)
          => \A r \in MappingsOf(key, mode) : r.role = "punctuation"

\* The raw entries of `raw` that satisfy Keep, in order.
RECURSIVE IndicatorEntries(_)
IndicatorEntries(raw) ==
    IF Len(raw) = 0 THEN <<>>
    ELSE (IF IsIndicatorEntry(raw[1].entry) THEN <<raw[1].entry>> ELSE <<>>)
         \o IndicatorEntries(Tail(raw))

IsSingleCellEntry(entry) ==
    ~IsIndicatorEntry(entry) /\ Len(entry.dots) = 1 /\ entry.print # <<>>

IsMultiCellEntry(entry) ==
    ~IsIndicatorEntry(entry) /\ Len(entry.dots) >= 2 /\ entry.print # <<>>

\* The (id, mode) pairs the multi-cell list is to hold: every multi-cell raw
\* entry once per mode of its profile, in order.
RECURSIVE MultiCellPairs(_)
MultiCellPairs(raw) ==
    IF Len(raw) = 0 THEN <<>>
    ELSE (IF IsMultiCellEntry(raw[1].entry)
          THEN [m \in 1..Len(raw[1].modes) |->
                   [id |-> raw[1].entry.id, mode |-> raw[1].modes[m],
                    dotsKey |-> UnifiedTable_dotsToKey(raw[1].entry.dots),
                    print |-> raw[1].entry.print]]
          ELSE <<>>)
         \o MultiCellPairs(Tail(raw))

\* C23: every raw entry goes to exactly one destination: an entry with role or
\* category "indicator" to the indicator list, once; otherwise an entry with
\* one cell and a print to the single-cell table under every mode of its
\* profile (and to the numeric table if its role is "numbers"); otherwise an
\* entry with two or more cells and a print to the multi-cell list once per
\* mode; every other entry nowhere.
C23_Classification ==
    unifiedData.built =>
       /\ [i \in 1..Len(unifiedData.indicators) |-> unifiedData.indicators[i].id]
             = [i \in 1..Len(IndicatorEntries(Raw)) |-> IndicatorEntries(Raw)[i].id]
       /\ [i \in 1..Len(unifiedData.multiCellEntries) |->
              [id |-> unifiedData.multiCellEntries[i].id,
               mode |-> unifiedData.multiCellEntries[i].mode,
               dotsKey |-> unifiedData.multiCellEntries[i].dotsKey,
               print |-> unifiedData.multiCellEntries[i].print]]
             = MultiCellPairs(Raw)
       /\ \A i \in 1..Len(Raw) :
             IsSingleCellEntry(Raw[i].entry) =>
                /\ \A m \in 1..Len(Raw[i].modes) :
                      MappingsOf(UnifiedTable_dotsToKey(Raw[i].entry.dots), Raw[i].modes[m])
                         # {}
                /\ Raw[i].entry.role = "numbers" =>
                      \E r \in unifiedData.numericMap :
                         r.dots = UnifiedTable_dotsToKey(Raw[i].entry.dots)
       /\ \A r \in unifiedData.singleCellMap :
             \E i \in 1..Len(Raw) :
                /\ IsSingleCellEntry(Raw[i].entry)
                /\ InModes(r.mode, Raw[i].modes)
                /\ r = DotMapping(UnifiedTable_dotsToKey(Raw[i].entry.dots), r.mode,
                                  Raw[i].entry)
       /\ \A r \in unifiedData.numericMap :
             \E i \in 1..Len(Raw) :
                /\ IsSingleCellEntry(Raw[i].entry)
                /\ Raw[i].entry.role = "numbers"
                /\ r.dots = UnifiedTable_dotsToKey(Raw[i].entry.dots)
                /\ r.id = Raw[i].entry.id
                /\ r.print = Raw[i].entry.print

\* An indicator by category alone, with a print and one cell, a digit and a
\* two-cell entry in a profile of two modes: one indicator, the digit in both
\* tables, two multi-cell entries.
C23_Witness ==
    /\ unifiedData.built
    /\ Len(Raw) = 3
    /\ \E i \in 1..3 : /\ Raw[i].entry.role # "indicator"
                       /\ Raw[i].entry.category = "indicator"
                       /\ Raw[i].entry.print # <<>>
                       /\ Len(Raw[i].entry.dots) = 1
    /\ \E i \in 1..3 : IsSingleCellEntry(Raw[i].entry) /\ Raw[i].entry.role = "numbers"
    /\ \E i \in 1..3 : IsMultiCellEntry(Raw[i].entry) /\ Len(Raw[i].modes) = 2
    /\ Len(unifiedData.indicators) = 1
    /\ Cardinality(unifiedData.singleCellMap) = 2
    /\ Cardinality(unifiedData.numericMap) = 1
    /\ Len(unifiedData.multiCellEntries) = 2

\* C24: an indicator's targetMode is kana if its tags or subcategory include
\* "kana", otherwise nemeth if they include "nemeth", and grade1 in every
\* other case: an indicator tagged with both "grade1" and "nemeth" gets nemeth.
C24_TargetMode ==
    unifiedData.built =>
       /\ Len(unifiedData.indicators) = Len(IndicatorEntries(Raw))
       /\ \A i \in 1..Len(unifiedData.indicators) :
             LET entry == IndicatorEntries(Raw)[i]
             IN unifiedData.indicators[i].targetMode =
                   IF "kana" \in entry.tags \/ entry.subcategory = "kana" THEN "kana"
                   ELSE IF "nemeth" \in entry.tags \/ entry.subcategory = "nemeth"
                   THEN "nemeth"
                   ELSE "grade1"

\* ---------------------------------------------------------------- Spec, the emissions
\* The emissions of the last handleChord call that went through normal lookup.
IsLookupEmit(ev) == ev.kind = "emit" /\ ev.via \in {"normal", "fallback"}

OwnRows(ev) == {r \in dotMapper.singleCellMap : r.dots = ev.cell /\ r.mode = ev.mode}

Grade1Rows(ev) == {r \in dotMapper.singleCellMap : r.dots = ev.cell /\ r.mode = "grade1"}

\* The print the fallback chain selects for an emission: mapping[m], else
\* mapping[grade1]; NoMapping.print when there is neither.
ChainPrint(ev) ==
    IF OwnRows(ev) # {} THEN (CHOOSE r \in OwnRows(ev) : TRUE).print
    ELSE IF Grade1Rows(ev) # {} THEN (CHOOSE r \in Grade1Rows(ev) : TRUE).print
    ELSE NoMapping.print

HasMapping(ev) == OwnRows(ev) # {} \/ Grade1Rows(ev) # {}

\* The cells handed to processCharacter during the call, in order.
RECURSIVE ReleasedCells(_)
ReleasedCells(events) ==
    IF Len(events) = 0 THEN <<>>
    ELSE (IF events[1].kind \in {"indOffer", "indFlush"} THEN events[1].cells ELSE <<>>)
         \o ReleasedCells(Tail(events))

\* The cells emitted by processCharacter during the call, in order.
RECURSIVE EmittedCells(_)
EmittedCells(events) ==
    IF Len(events) = 0 THEN <<>>
    ELSE (IF events[1].kind = "emit" /\ events[1].via # "multi"
          THEN <<events[1].cell>> ELSE <<>>)
         \o EmittedCells(Tail(events))

OneEmissionPerCell == EmittedCells(log) = ReleasedCells(log)

\* C25 as stated: a cell that reaches normal lookup in mode m is emitted as the
\* print of mapping[m], else the print of mapping[grade1], else its braille
\* glyph; every cell that reaches single-cell emission is emitted exactly once.
C25_FallbackChain ==
    /\ OneEmissionPerCell
    /\ \A i \in 1..Len(log) :
          IsLookupEmit(log[i]) =>
             IF HasMapping(log[i])
             THEN log[i].via = "normal" /\ log[i].text = ChainPrint(log[i])
             ELSE /\ log[i].via = "fallback"
                  /\ log[i].code = dotsKeyToUnicodeBraille(log[i].cell)

KanaBrackets == {<<"u300C">>, <<"u300D">>}

\* C25, amended: the print is selected by the chain mapping[m], mapping[grade1],
\* glyph; a selected print is replaced by a kana bracket for the cell 36 in kana
\* mode and upper-cased when a capital modifier was pending; every cell that
\* reaches single-cell emission is emitted exactly once.
C25_FallbackChainModified ==
    /\ OneEmissionPerCell
    /\ \A i \in 1..Len(log) :
          IsLookupEmit(log[i]) =>
             IF HasMapping(log[i])
             THEN /\ log[i].via = "normal"
                  /\ IF log[i].mode = "kana" /\ log[i].cell = KanaBracketKey
                     THEN log[i].print \in KanaBrackets
                     ELSE log[i].print = ChainPrint(log[i])
                  /\ log[i].text = IF log[i].modifier = "capital"
                                   THEN toUpperCase(log[i].print)
                                   ELSE log[i].print
             ELSE /\ log[i].via = "fallback"
                  /\ log[i].code = dotsKeyToUnicodeBraille(log[i].cell)

\* A cell without a kana mapping is emitted in kana mode as its grade1 print.
C25_Witness ==
    \E i \in 1..Len(log) :
       /\ IsLookupEmit(log[i])
       /\ log[i].mode = "kana"
       /\ OwnRows(log[i]) = {}
       /\ Grade1Rows(log[i]) # {}
       /\ log[i].via = "normal"
       /\ log[i].text = ChainPrint(log[i])
       /\ EmittedCells(log) = <<log[i].cell>>

\* ---------------------------------------------------------------- SpecHost
\* The last handleChord call did nothing to the state machine but emit, and
\* the host failed every emission it made.
FailedEmissionOnly ==
    /\ \E i \in 1..Len(log) : log[i].kind = "emit"
    /\ \A i \in 1..Len(log) :
          /\ log[i].kind \notin {"apply", "space"}
          /\ log[i].kind = "emit" => ~log[i].ok

\* C26: when the host fails an emission, the driver does not retry it, nothing
\* is recorded in the tracker, and the emission step leaves the state machine
\* (mode, stack, scope, pending modifier) as it was when the step began.
C26_FailedEmissionNeutral ==
    FailedEmissionOnly =>
       /\ OneEmissionPerCell
       /\ brailleTracker = drvPre.tracker
       /\ SMCore(stateMachine) = SMCore(drvPre.sm)

\* ---------------------------------------------------------------- SpecAsync
\* C27: chord handling is serialised: no handleChord call reads the mode or
\* touches a matcher while an earlier call is still awaiting its emission, and
\* emissions are requested in chord order.
C27_Serialised == ~asyncObs.overlap /\ ~asyncObs.outOfOrder

\* C29: while braille input is off, the pending chord is discarded and its
\* timer disarmed, both matcher buffers and the deferred slot are empty, the
\* state machine is in its initial state, numericMode is false, the kana
\* bracket toggle is open and the tracker is empty.
C29_DeactivationResets ==
    ~isActive =>
       /\ chordDetector.pendingDots = {}
       /\ chordDetector.timer = 0
       /\ indicatorMatcher.pendingCells = <<>>
       /\ indicatorMatcher.deferredMatch = NoIndicator
       /\ multiCellMatcher.pendingCells = <<>>
       /\ SMCore(stateMachine) = SMCore(NewStateMachine("grade1"))
       /\ isNumericMode = FALSE
       /\ kanaBracketOpen = TRUE
       /\ brailleTracker = NewBrailleTracker

\* ---------------------------------------------------------------- mode-change callback
\* The indicator applications of the last handleChord call that are mode
\* switches and changed the state machine.
EffectiveSwitches ==
    {i \in 1..Len(log) : /\ log[i].kind = "apply"
                         /\ IsModeSwitch(log[i].indicator)
                         /\ log[i].changed}

\* The callback fired once, with the indicator applied, while event i was applied.
CallbackOnceWith(i) ==
    /\ Len(log[i].cb) = 1
    /\ log[i].cb[1].indicator = log[i].indicator

\* C28: every matched mode-switch indicator that changes the state machine
\* fires the mode-change callback exactly once, with that indicator, while it
\* is applied (after the match, before the next emission).
C28_CallbackOrdering == \A i \in EffectiveSwitches : CallbackOnceWith(i)

\* ---------------------------------------------------------------- kana bracket
\* The single-cell emissions of cell 36 in kana mode made by the last handleChord call.
BracketEmits ==
    {i \in 1..Len(log) : /\ log[i].kind = "emit"
                         /\ log[i].cell = KanaBracketKey
                         /\ log[i].mode = "kana"}

\* The toggle as it was when emission i was made.
BracketOpenAt(i) ==
    drvPre.kanaBracketOpen = (Cardinality({j \in BracketEmits : j < i}) % 2 = 0)

\* C30: in kana mode the emissions of cell 36 alternate between the opening
\* and the closing bracket, starting with the opening one after activation
\* or deactivation; no other emission changes the toggle.
C30_KanaBracketToggle ==
    /\ ~isActive => kanaBracketOpen
    /\ chord # {} =>
          /\ \A i \in BracketEmits :
                log[i].text = IF BracketOpenAt(i) THEN <<"u300C">> ELSE <<"u300D">>
          /\ kanaBracketOpen =
                (drvPre.kanaBracketOpen = (Cardinality(BracketEmits) % 2 = 0))

\* A closing bracket is emitted: the opening one was emitted before it, and the
\* toggle is open again.
C30_Witness ==
    /\ chord = {3, 6}
    /\ ~drvPre.kanaBracketOpen
    /\ \E i \in BracketEmits : log[i].text = <<"u300D">>
    /\ kanaBracketOpen

\* ---------------------------------------------------------------- indicator keys
\* C31: the indicator list built by the unifier holds at most one indicator
\* per dotsKey.
C31_IndicatorKeysUnique ==
    \A i, j \in 1..Len(unifiedData.indicators) :
       unifiedData.indicators[i].dotsKey = unifiedData.indicators[j].dotsKey => i = j

\* ---------------------------------------------------------------- SpecBT
\* C32: record(line, col, key) makes the line at least col+1 long, sets the
\* entry at col to key, fills the new positions below col with the empty key
\* and leaves every other entry and every other line as it was; a line gets
\* shorter only by clear(); getTrackedLines() lists exactly the recorded
\* lines, ascending.
C32_RecordFrame ==
    LET pre == trackerObs.pre
        old == LineData_get(pre, trackerObs.line)
        new == LineData_get(lineData, trackerObs.line)
        at == trackerObs.col + 1
        tracked == getTrackedLines(lineData)
    IN /\ trackerObs.op \in {"record", "recordSpace"} =>
             /\ LineData_has(lineData, trackerObs.line)
             /\ Len(new) >= at
             /\ Len(new) = IF Len(old) >= at THEN Len(old) ELSE at
             /\ new[at] = trackerObs.key
             /\ \A i \in 1..Len(new) :
                   i # at => new[i] = IF i <= Len(old) THEN old[i] ELSE <<>>
             /\ \A other \in BTLines \ {trackerObs.line} :
                   /\ LineData_has(lineData, other) = LineData_has(pre, other)
                   /\ LineData_get(lineData, other) = LineData_get(pre, other)
       /\ trackerObs.op = "clear" => lineData = NewLineData
       /\ {tracked[i] : i \in 1..Len(tracked)} = trackerObs.recorded
       /\ \A i, j \in 1..Len(tracked) : i < j => tracked[i] < tracked[j]
       /\ \A line \in BTLines : hasLine(lineData, line) = (line \in trackerObs.recorded)

\* A record past the end of a line that holds one entry, on the line recorded
\* second: the gap is filled, and the lines are listed in ascending order.
C32_Witness ==
    /\ trackerObs.op = "record"
    /\ trackerObs.col = 2
    /\ Len(LineData_get(trackerObs.pre, trackerObs.line)) = 1
    /\ LineData_get(lineData, trackerObs.line)[1] # <<>>
    /\ LineData_get(lineData, trackerObs.line)[2] = <<>>
    /\ lineData.keys = <<1, 0>>
    /\ getTrackedLines(lineData) = <<0, 1>>

\* ---------------------------------------------------------------- arrival order
\* C33: whenever the driver emits a character, no cell that arrived earlier
\* is still held unresolved in the indicator matcher's buffer.
C33_ArrivalOrder ==
    \A i \in 1..Len(log) : log[i].kind = "emit" => log[i].held = <<>>

\* ---------------------------------------------------------------- no cell lost
\* C34: the indicator matcher loses no cell: the cells held before a call and
\* the cell pushed are, in order, the cells the call hands back (those of the
\* matched indicator, the leftover list, the 'none' buffer, the flush result)
\* followed by the cells still held; so the cells handed back up to a
\* flushPending are the cells pushed.
C34_NoCellLost ==
    LET r == matchOp.result
        handedBack == IF r.type \in {"matched", "matched_with_leftover"}
                      THEN r.indicator.dots \o r.leftoverCells
                      ELSE r.bufferedCells
    IN /\ matchOp.name = "tryMatch" =>
             Append(matchOp.pre.pendingCells, matchOp.key)
                = handedBack \o indicatorMatcher.pendingCells
       /\ matchOp.name = "flushPending" =>
             /\ matchOp.pre.pendingCells = handedBack
             /\ indicatorMatcher.pendingCells = <<>>

\* ---------------------------------------------------------------- pending match at a space
\* C35: when a space chord arrives while the multi-cell buffer equals the key
\* of an entry visible in the current mode, that entry's print text is emitted
\* before the space.
C35_PendingMatchAtSpace ==
    LET held == {i \in 1..Len(multiCellMatcher.entries) :
                    /\ multiCellMatcher.entries[i].dots = drvPre.mcPending
                    /\ \/ multiCellMatcher.entries[i].mode = drvPre.sm.currentMode
                       \/ multiCellMatcher.entries[i].mode = "grade1"}
    IN (0 \in chord /\ held # {}) =>
          \E i, j \in 1..Len(log) :
             /\ i < j
             /\ log[j].kind = "space"
             /\ log[i].kind = "emit"
             /\ log[i].via = "multi"
             /\ \E e \in held : log[i].print = multiCellMatcher.entries[e].print

\* ---------------------------------------------------------------- grade1 as fallback
\* C36: when an entry of the call's non-grade1 mode and a grade1 entry both
\* have the buffer as their key, a tryMatch call that returns a match returns
\* the entry of the call's mode, whatever the order of the two in the list.
C36_Grade1OnlyFallback ==
    LET entries == matchOp.pre.entries
        withKey(mode) == {i \in 1..Len(entries) :
                             entries[i].dots = Pushed /\ entries[i].mode = mode}
    IN (/\ IsMcTryMatch
        /\ matchOp.mode # "grade1"
        /\ withKey(matchOp.mode) # {}
        /\ withKey("grade1") # {}
        /\ matchOp.result.type = "matched")
       => matchOp.result.entry.mode = matchOp.mode

\* ---------------------------------------------------------------- letters and digits
\* C37: when a numbers entry and a letter entry with the same dot key are
\* contributed under the same mode, the numeric table maps the key to the
\* first numbers entry's digit and the single-cell table maps the key, for
\* that mode, to the letter, whichever of the two is processed first.
C37_LettersAndDigits ==
    unifiedData.built =>
       \A key \in RawKeys, mode \in Modes :
          LET numbers == {i \in Contributed(key, mode) : Raw[i].entry.role = "numbers"}
              letters == {i \in Contributed(key, mode) : Raw[i].entry.role = "letter"}
          IN (numbers # {} /\ letters # {}) =>
                /\ \E r \in unifiedData.numericMap :
                      r.dots = key /\ r.id = Raw[First(numbers)].entry.id
                /\ \A r \in MappingsOf(key, mode) : r.role = "letter"
                /\ MappingsOf(key, mode) # {}

\* ---------------------------------------------------------------- SpecIM: state invariant
\* C38: a non-empty deferred slot implies a non-empty buffer whose leading
\* cells, joined by "|", are the deferred indicator's dotsKey; whenever the
\* buffer is empty the deferred slot is empty.
C38_DeferredWithinBuffer ==
    LET buffer == indicatorMatcher.pendingCells
        deferred == indicatorMatcher.deferredMatch
    IN /\ deferred # NoIndicator =>
             /\ Len(buffer) > 0
             /\ \E n \in 1..Len(buffer) : Join(SubSeq(buffer, 1, n)) = deferred.dotsKey
       /\ buffer = <<>> => deferred = NoIndicator

\* A deferred one-cell indicator with a second cell buffered behind it.
C38_Witness ==
    /\ indicatorMatcher.deferredMatch # NoIndicator
    /\ Len(indicatorMatcher.deferredMatch.dots) = 1
    /\ Len(indicatorMatcher.pendingCells) = 2
    /\ matchOp.name = "tryMatch"

\* ---------------------------------------------------------------- SpecMatchers: bounded buffers
\* The number of cells a dotsKey names: one more than its separators.
CellsOfKey(key) == Cardinality({i \in 1..Len(key) : key[i] = "|"}) + 1

\* Every element's dotsKey has as many cells as its dots.
KeysAgreeWithDots(list) ==
    \A i \in 1..Len(list) : CellsOfKey(list[i].dotsKey) = Len(list[i].dots)

\* What a tryMatch call left behind: `after` is the matcher after the call.
BoundedAfterTryMatch(after) ==
    /\ matchOp.result.type \in {"matched", "matched_with_leftover", "none"} =>
           after.pendingCells = <<>>
    /\ matchOp.result.type = "pending" =>
           /\ after.pendingCells = Append(matchOp.pre.pendingCells, matchOp.key)
           /\ Len(after.pendingCells) < after.maxCells
    /\ after.maxCells = 1 => matchOp.result.type # "pending"

\* C39: for lists whose dotsKey has as many cells as dots, after every
\* tryMatch call on either matcher the buffer holds strictly fewer than
\* maxCells cells: it is empty after matched, matched_with_leftover and none,
\* pending is returned only with fewer than maxCells cells buffered, and a
\* matcher with no element longer than one cell never returns pending.
C39_BuffersBounded ==
    /\ KeysAgreeWithDots(indicatorMatcher.indicators) =>
           /\ Len(indicatorMatcher.pendingCells) < indicatorMatcher.maxCells
           /\ matchOp.name = "tryMatch" => BoundedAfterTryMatch(indicatorMatcher)
    /\ KeysAgreeWithDots(multiCellMatcher.entries) =>
           /\ Len(multiCellMatcher.pendingCells) < multiCellMatcher.maxCells
           /\ matchOp.name = "mcTryMatch" => BoundedAfterTryMatch(multiCellMatcher)

\* The indicator matcher defers an exact match with one cell less than
\* maxCells buffered, the branch that has no length test of its own.
C39_Witness ==
    /\ matchOp.name = "tryMatch"
    /\ matchOp.result.type = "pending"
    /\ indicatorMatcher.deferredMatch # NoIndicator
    /\ Len(indicatorMatcher.pendingCells) = 2
    /\ indicatorMatcher.maxCells = 3
    /\ KeysAgreeWithDots(indicatorMatcher.indicators)

\* ---------------------------------------------------------------- SpecSM: state invariant
\* C40: between operations an active scope implies a non-empty mode stack,
\* symbolCount is 0, and grade1 with an empty stack implies no active scope.
\* The machines checked start in grade1 or in kana.
C40_ScopeNeedsStack ==
    /\ stateMachine.activeScope # NULL => Len(stateMachine.modeStack) > 0
    /\ stateMachine.symbolCount = 0
    /\ (stateMachine.currentMode = "grade1" /\ stateMachine.modeStack = <<>>) =>
           stateMachine.activeScope = NULL

\* A character emitted in a nested symbol scope: the count went to 1 and
\* back, one mode was popped and one stays on the stack with no scope.
C40_Witness ==
    /\ smOp.name = "onCharacterEmitted"
    /\ smPre.activeScope = "symbol"
    /\ Len(smPre.modeStack) = 2
    /\ smPre.modeStack[1] = "grade1"
    /\ Len(stateMachine.modeStack) = 1
    /\ stateMachine.activeScope = NULL
====
